---------------------------- MODULE Spec2Model ----------------------------
(***************************************************************************)
(* Collection and enrichment orchestrator of isdnews.                      *)
(*                                                                         *)
(* Collection: DataCollector.collect_from_source and                       *)
(* collect_all_active_sources (collector/fetchers.py) with the triggers    *)
(* of collector/tasks.py.  Enrichment: process_openrouter_job              *)
(* (collector/tasks.py).  Tables: Source, Article, FetchLog, JobConfig,    *)
(* Team (collector/models.py).                                             *)
(*                                                                         *)
(* Further parts: notify_teams, JobConfigView.post                         *)
(* (collector/views_jobconfig.py), the collect_data management command,    *)
(* get_system_config (collector/utils.py) and the try/except structure of  *)
(* the four tasks; Source.clean and the fetch() methods step by step,      *)
(* fetch_article_detail's text lengths, scheduled_collection, and the      *)
(* Team and Article admin forms (collector/admin.py).                      *)
(*                                                                         *)
(* Time is counted in whole units; a fetch_interval of k is k units.       *)
(* A source-run is one invocation of collect_from_source; its steps are    *)
(* the stretches of code between two awaits that touch the database.       *)
(***************************************************************************)
EXTENDS Integers, Sequences, FiniteSets, TLC

VARIABLES
    now,          \* the clock read by django_timezone.now()
    last_fetched, \* Source.last_fetched, per source
    runs,         \* the collector tasks: each holds one invocation of collect_from_source
    articles,     \* the Article table, a set of rows
    fetch_logs,   \* the FetchLog table, a set of rows
    due_obs,      \* observer: the latest selection of collect_all_active_sources
    faults,       \* failures injected so far (fetch, save, source update)
    config,       \* the JobConfig row of job_type 'openrouter'
    job,          \* per enrichment worker: its position inside process_openrouter_job
    cycles,       \* the number of enrichment cycles started so far
    served,       \* per committed enrichment cycle, in order: the cursor read and the team served
    ai_logs,      \* the AILog table, a set of rows
    fan,          \* one collection trigger seen as counts: sources due, runs launched, runs logged
    notify,       \* one direct call of notify_teams: its arguments and how it ended
    view,         \* JobConfigView.post: the row it read and the data it was sent
    syscfg,       \* the SystemConfig row of one key, the cache entry of that key, the last lookup
    trig,         \* one trigger task of tasks.py: where it is, what was raised, what it returned
    team_active,  \* Team.is_active, per team
    fetcher,      \* one Source row as saved through its form and one fetch() call on it
    extract,      \* one call of fetch_article_detail: the page and what became of it
    cmd,          \* repeated runs of the collect_data command over a long source list
    edited        \* the Article rows saved through the ArticleAdmin form

vars == <<now, last_fetched, runs, articles, fetch_logs, due_obs, faults,
          config, job, cycles, served, ai_logs, fan, notify, view, syscfg, trig,
          team_active, fetcher, extract, cmd, edited>>

more == <<team_active, fetcher, extract, cmd, edited>>

aux == <<notify, view, syscfg, trig, more>>

----------------------------------------------------------------------------
(* Bounds of the model *)

MaxTime == 2
MaxFaults == 1
MaxCycles == 2

(* Program constants *)

MaxNewPerRun == 5

NoTime == -1

----------------------------------------------------------------------------
(* The tables that the collector only reads *)

Teams == {"dev", "ba", "infrastructure"}

TeamActive(t) == t \in {"dev", "ba"}

Sources == {"s1", "s2", "s3", "s4"}

SourceOrder == <<"s1", "s2", "s3", "s4">>

SourceRow(s) ==
    CASE s = "s1" -> [type |-> "rss", team |-> "dev", is_active |-> TRUE,
                      fetch_interval |-> 2, force_collect |-> FALSE,
                      has_prompt |-> FALSE]
      [] s = "s2" -> [type |-> "static", team |-> "ba", is_active |-> TRUE,
                      fetch_interval |-> 1, force_collect |-> TRUE,
                      has_prompt |-> TRUE]
      [] s = "s3" -> [type |-> "ftp", team |-> "dev", is_active |-> TRUE,
                      fetch_interval |-> 2, force_collect |-> FALSE,
                      has_prompt |-> FALSE]
      [] OTHER    -> [type |-> "api", team |-> "infrastructure", is_active |-> FALSE,
                      fetch_interval |-> 1, force_collect |-> TRUE,
                      has_prompt |-> FALSE]

TeamCodes == {"", "dev", "ba"}

----------------------------------------------------------------------------
(* What the remote endpoints answer *)

Urls == 1..7

FeedA == <<1, 2, 3>>
FeedB == <<1, 2, 3, 4, 5, 6>>
FeedC == <<7, 7, 7, 7, 7, 6>>

FeedsOf(s) == IF SourceRow(s).type = "rss" THEN {FeedA, FeedB} ELSE {FeedA, FeedC}

PublishedAt(u) == (u * 3) % 8

ExcTexts == {"", "Cannot connect to host"}

Range(f) == { f[i] : i \in DOMAIN f }

----------------------------------------------------------------------------
(* DedupGate: fetchers.py lines 469-471 *)

ExistingUrls(data) == { a.url : a \in articles } \cap Range(data)

NewArticles_NoCap(data, existing) ==
    SelectSeq(data, LAMBDA u : u \notin existing)

NewArticles_TruncateFirst(data, existing) ==
    SelectSeq(SubSeq(data, 1, IF Len(data) < MaxNewPerRun THEN Len(data) ELSE MaxNewPerRun),
              LAMBDA u : u \notin existing)

NewArticles(data, existing) ==
    LET fresh == SelectSeq(data, LAMBDA u : u \notin existing)
    IN  SubSeq(fresh, 1, IF Len(fresh) < MaxNewPerRun THEN Len(fresh) ELSE MaxNewPerRun)

(* Article.objects.get_or_create(url=..., defaults=...) under unique=True *)

NewRow(r, i, u, s) ==
    [pk |-> <<r, i>>, url |-> u, source |-> s, published_at |-> PublishedAt(u),
     content |-> "", is_ai_processed |-> FALSE, ai_type |-> "", ai_content |-> ""]

GetOrCreate_Overwrite(tbl, row) ==
    IF \E a \in tbl : a.url = row.url
    THEN [tbl |-> { IF a.url = row.url THEN [row EXCEPT !.pk = a.pk] ELSE a : a \in tbl },
          created |-> FALSE]
    ELSE [tbl |-> tbl \cup {row}, created |-> TRUE]

GetOrCreate_NoUnique(tbl, row) ==
    [tbl |-> tbl \cup {row}, created |-> TRUE]

GetOrCreate(tbl, row) ==
    IF \E a \in tbl : a.url = row.url
    THEN [tbl |-> tbl, created |-> FALSE]
    ELSE [tbl |-> tbl \cup {row}, created |-> TRUE]

----------------------------------------------------------------------------
(* SchedulingPolicy: the filter of collect_all_active_sources *)

IsDueRow_Strict(force_collect, lf, fetch_interval, t) ==
    \/ force_collect
    \/ lf = NoTime
    \/ lf < t - fetch_interval

IsDueRow(force_collect, lf, fetch_interval, t) ==
    \/ force_collect
    \/ lf = NoTime
    \/ lf <= t - fetch_interval

IsDue(s, t) ==
    IsDueRow(SourceRow(s).force_collect, last_fetched[s], SourceRow(s).fetch_interval, t)

TeamMatches(s, tc) == tc = "" \/ SourceRow(s).team = tc

DueSources(tc, t) ==
    { s \in Sources : SourceRow(s).is_active /\ TeamMatches(s, tc) /\ IsDue(s, t) }

----------------------------------------------------------------------------
(* Source-runs *)

Tasks == {"t1", "t2", "t3"}

TaskOrder == <<"t1", "t2", "t3">>

IdleRun ==
    [pc |-> "idle", source |-> "none", after |-> {}, articles_data |-> << >>,
     existing |-> {}, new_articles |-> << >>, i |-> 0, saved_count |-> 0,
     created |-> 0, lost |-> 0, found_enriched |-> 0, save_errors |-> 0,
     raised |-> "none",
     status |-> "error", articles_count |-> 0, error_message |-> ""]

Returned == { t \in Tasks : runs[t].pc = "done" }

FreeTasks(pool) == SelectSeq(TaskOrder, LAMBDA t : t \in pool /\ runs[t].pc = "idle")

StartedRun(s) == [IdleRun EXCEPT !.pc = "start", !.source = s, !.after = Returned]

(* FetcherFactory.create_fetcher: FETCHER_MAP.get(source.type), ValueError *)
(* when the type is not a key of the map                                   *)
SourceTypes == {"rss", "api", "static", "ftp", "RSS", ""}

CreateFetcher_DefaultRSS(type) ==
    CASE type = "rss" -> "RSSFetcher"
      [] type = "api" -> "APIFetcher"
      [] type = "static" -> "AgentQLFetcher"
      [] OTHER -> "RSSFetcher"

CreateFetcher(type) ==
    CASE type = "rss" -> "RSSFetcher"
      [] type = "api" -> "APIFetcher"
      [] type = "static" -> "AgentQLFetcher"
      [] OTHER -> "ValueError"

FetcherKnown(s) == CreateFetcher(SourceRow(s).type) # "ValueError"

NoObs == [team_code |-> "", at |-> NoTime, lf |-> [s \in Sources |-> NoTime],
          started |-> {}, tasks |-> {}, entry |-> "none"]

Workers == {"w1", "w2"}

IdleJob ==
    [pc |-> "idle", team_code |-> "", article |-> <<0, 0>>, url |-> 0,
     team |-> "", content |-> "", ai_content |-> "", id |-> 0,
     call |-> "none", outcome |-> "none", requests |-> 0, posted |-> << >>]

(* a worker whose cycle has ended keeps only how its AI call ended and *)
(* how many requests it sent                                           *)
Ended(j, call, outcome) ==
    [IdleJob EXCEPT !.id = j.id, !.call = call, !.outcome = outcome,
                    !.requests = j.requests]

NoFan == [entry |-> "none", due |-> 0, launched |-> 0, logged |-> 0]

None == "None"

NoNotify == [pc |-> "none", webhook_url |-> None, title |-> "", content |-> "",
             url |-> None, ended |-> "none", post |-> "none"]

NoView == [pc |-> "idle", row |-> [enabled |-> TRUE, last_type_sent |-> ""],
           data |-> "absent"]

NoSysCfg == [store |-> None, changes |-> 0, changed_at |-> 0, cached |-> None,
             expires |-> 0, pc |-> "idle", read |-> None,
             lookups |-> 0, value |-> None, from |-> "none"]

NoTrig == [op |-> "none", pc |-> "idle", at |-> 0, exc |-> "none", point |-> "none",
           frames |-> << >>, swallowed |-> {}, result |-> "none"]

NoFetcher == [type |-> "rss", params |-> [json |-> "null", keys |-> {}, headers |-> "none"],
              pc |-> "idle", key_read |-> FALSE, requests |-> 0, ended |-> "none"]

NoExtract == [pc |-> "idle", title |-> 0, meta |-> 0, paragraphs |-> << >>,
              raw_content |-> << >>, ai_calls |-> 0, call |-> "none", content |-> "none"]

NoCmd == [pc |-> "idle", failing |-> {}, fresh |-> {}, attempted |-> {}, round |-> 0]

InitCommon ==
    /\ team_active = [t \in Teams |-> TeamActive(t)]
    /\ fetcher = NoFetcher
    /\ extract = NoExtract
    /\ cmd = NoCmd
    /\ edited = {}
    /\ runs = [t \in Tasks |-> IdleRun]
    /\ fetch_logs = {}
    /\ due_obs = NoObs
    /\ faults = 0
    /\ job = [w \in Workers |-> IdleJob]
    /\ ai_logs = {}
    /\ fan = NoFan
    /\ cycles = 0
    /\ served = << >>
    /\ view = NoView
    /\ trig = NoTrig

InitAux ==
    /\ notify = NoNotify
    /\ syscfg = NoSysCfg

Init ==
    /\ now = 0
    /\ last_fetched = [s \in Sources |-> IF s \in {"s1", "s2"} THEN 0 ELSE NoTime]
    /\ articles = {}
    /\ config = [enabled |-> TRUE, last_type_sent |-> ""]
    /\ InitCommon
    /\ InitAux

Tick ==
    /\ now < MaxTime
    /\ now' = now + 1
    /\ UNCHANGED <<last_fetched, runs, articles, fetch_logs, due_obs, faults,
                   config, job, cycles, served, ai_logs, fan, aux>>

(* tasks.py collect_data_from_source: one run of an active source *)
CollectDataFromSource(s, tc, pool) ==
    /\ Len(FreeTasks(pool)) > 0
    /\ SourceRow(s).is_active
    /\ TeamMatches(s, tc)
    /\ runs' = [runs EXCEPT ![FreeTasks(pool)[1]] = StartedRun(s)]
    /\ UNCHANGED <<now, last_fetched, articles, fetch_logs, due_obs, faults,
                   config, job, cycles, served, ai_logs, fan, aux>>

(* fetchers.py collect_all_active_sources: the due queryset, one task per *)
(* selected source, gathered                                              *)
CollectAllActiveSources(tc, pool) ==
    LET order == SelectSeq(SourceOrder, LAMBDA s : s \in DueSources(tc, now))
        free == FreeTasks(pool)
    IN  /\ Len(order) <= Len(free)
        /\ runs' = [t \in Tasks |->
                      IF \E k \in 1..Len(order) : free[k] = t
                      THEN LET k == CHOOSE k \in 1..Len(order) : free[k] = t
                           IN  StartedRun(order[k])
                      ELSE runs[t]]
        /\ UNCHANGED <<now, last_fetched, articles, fetch_logs, faults,
                       config, job, cycles, served, ai_logs, fan, aux>>

(* lines 512-517: the FetchLog row written in the finally clause *)
LogRow(t, status, count, msg) ==
    [id |-> <<t, Cardinality({ l \in fetch_logs : l.run = t }) + 1>>,
     run |-> t, source |-> runs[t].source, status |-> status,
     articles_count |-> count, error_message |-> msg, fetched_at |-> now]

CreateFetchLog_SuccessOnly(t, status, count, msg) ==
    IF status = "success" THEN fetch_logs \cup {LogRow(t, status, count, msg)}
    ELSE fetch_logs

CreateFetchLog(t, status, count, msg) ==
    fetch_logs \cup {LogRow(t, status, count, msg)}

Fail_CancelsOthers(t, step, msg) ==
    /\ runs' = [x \in Tasks |->
                  IF x = t
                  THEN [runs[x] EXCEPT !.pc = "done", !.raised = step,
                                       !.status = "error", !.error_message = msg]
                  ELSE IF runs[x].pc \in {"idle", "done"}
                       THEN runs[x]
                       ELSE [runs[x] EXCEPT !.pc = "done", !.raised = "cancelled"]]
    /\ fetch_logs' = CreateFetchLog(t, "error", runs[t].articles_count, msg)

(* the except clause, lines 505-510, followed by the finally clause *)
Fail(t, step, msg) ==
    /\ runs' = [runs EXCEPT ![t].pc = "done", ![t].raised = step,
                            ![t].status = "error", ![t].error_message = msg]
    /\ fetch_logs' = CreateFetchLog(t, "error", runs[t].articles_count, msg)

(* lines 465-467: create_fetcher and fetcher.fetch() *)
Fetch(t) ==
    /\ runs[t].pc = "start"
    /\ \/ /\ ~FetcherKnown(runs[t].source)
          /\ Fail(t, "select", "Unknown source type")
          /\ UNCHANGED faults
       \/ /\ FetcherKnown(runs[t].source)
          /\ SourceRow(runs[t].source).type = "static"
          /\ ~SourceRow(runs[t].source).has_prompt
          /\ Fail(t, "fetch", "AgentQL fetcher requires 'prompt' in params")
          /\ UNCHANGED faults
       \/ /\ FetcherKnown(runs[t].source)
          /\ SourceRow(runs[t].source).type = "static" => SourceRow(runs[t].source).has_prompt
          /\ faults < MaxFaults
          /\ \E txt \in ExcTexts : Fail(t, "fetch", txt)
          /\ faults' = faults + 1
       \/ /\ FetcherKnown(runs[t].source)
          /\ SourceRow(runs[t].source).type = "static" => SourceRow(runs[t].source).has_prompt
          /\ \E feed \in FeedsOf(runs[t].source) :
                runs' = [runs EXCEPT ![t].pc = "fetched", ![t].articles_data = feed]
          /\ UNCHANGED <<faults, fetch_logs>>
    /\ UNCHANGED <<now, last_fetched, articles, due_obs, config, job, cycles, served, ai_logs, fan, aux>>

(* lines 470-473: the existing-URL query and the truncation *)
Dedup(t) ==
    /\ runs[t].pc = "fetched"
    /\ LET existing == ExistingUrls(runs[t].articles_data)
       IN  runs' = [runs EXCEPT ![t].pc = "persist",
                                ![t].existing = existing,
                                ![t].new_articles = NewArticles(runs[t].articles_data, existing),
                                ![t].i = 1,
                                ![t].saved_count = 0]
    /\ UNCHANGED <<now, last_fetched, articles, fetch_logs, due_obs, faults,
                   config, job, cycles, served, ai_logs, fan, aux>>

(* lines 474-494: one iteration of the save loop *)
Persist(t) ==
    /\ runs[t].pc = "persist"
    /\ runs[t].i <= Len(runs[t].new_articles)
    /\ LET u == runs[t].new_articles[runs[t].i]
           res == GetOrCreate(articles, NewRow(t, runs[t].i, u, runs[t].source))
       IN  \/ /\ articles' = res.tbl
              /\ runs' = [runs EXCEPT
                            ![t].i = @ + 1,
                            ![t].saved_count = @ + 1,
                            ![t].created = IF res.created THEN @ + 1 ELSE @,
                            ![t].lost = IF ~res.created /\ u \notin runs[t].existing
                                        THEN @ + 1 ELSE @,
                            ![t].found_enriched =
                                IF \E a \in articles : a.url = u /\ a.is_ai_processed
                                THEN @ + 1 ELSE @]
              /\ UNCHANGED faults
           \/ /\ faults < MaxFaults
              /\ runs' = [runs EXCEPT ![t].i = @ + 1, ![t].save_errors = @ + 1]
              /\ faults' = faults + 1
              /\ UNCHANGED articles
    /\ UNCHANGED <<now, last_fetched, fetch_logs, due_obs, config, job, cycles, served, ai_logs, fan, aux>>

(* lines 496-517: source.last_fetched, the outcome and the FetchLog row *)
Finish(t) ==
    /\ runs[t].pc = "persist"
    /\ runs[t].i > Len(runs[t].new_articles)
    /\ \/ /\ last_fetched' = [last_fetched EXCEPT ![runs[t].source] = now]
          /\ runs' = [runs EXCEPT ![t].pc = "done", ![t].status = "success",
                                  ![t].articles_count = runs[t].saved_count]
          /\ fetch_logs' = CreateFetchLog(t, "success", runs[t].saved_count,
                                          runs[t].error_message)
          /\ UNCHANGED faults
       \/ /\ faults < MaxFaults
          /\ \E txt \in ExcTexts : Fail(t, "save_source", txt)
          /\ faults' = faults + 1
          /\ UNCHANGED last_fetched
    /\ UNCHANGED <<now, articles, due_obs, config, job, cycles, served, ai_logs, fan, aux>>

----------------------------------------------------------------------------
(* Enrichment: tasks.py process_openrouter_job *)

(* lines 145-165: the job config, the oldest unprocessed article, its team *)
Unprocessed(tc) ==
    { a \in articles : ~a.is_ai_processed /\ TeamMatches(a.source, tc) }

(* line 155: order_by('published_at').first() *)
OldestUnprocessed_Newest(tc) ==
    { a \in Unprocessed(tc) : \A b \in Unprocessed(tc) : a.published_at >= b.published_at }

OldestUnprocessed(tc) ==
    { a \in Unprocessed(tc) : \A b \in Unprocessed(tc) : a.published_at <= b.published_at }

EnrichSelect(w, tc) ==
    /\ job[w].pc = "idle"
    /\ cycles < MaxCycles
    /\ config.enabled
    /\ \E a \in OldestUnprocessed(tc) :
          job' = [job EXCEPT ![w] =
                    [pc |-> "key", team_code |-> tc, article |-> a.pk,
                     url |-> a.url, team |-> SourceRow(a.source).team,
                     content |-> a.content, ai_content |-> "",
                     id |-> cycles + 1, call |-> "none", outcome |-> "none",
                     requests |-> 0, posted |-> << >>]]
    /\ cycles' = cycles + 1
    /\ UNCHANGED <<now, last_fetched, runs, articles, fetch_logs, due_obs,
                   faults, config, served, ai_logs, fan, aux>>

(* lines 146-149 and 157-159: the job is disabled, or there is no article *)
EnrichNoArticle(w, tc) ==
    /\ job[w].pc = "idle"
    /\ cycles < MaxCycles
    /\ ~config.enabled \/ OldestUnprocessed(tc) = {}
    /\ job' = [job EXCEPT ![w] =
                 [IdleJob EXCEPT !.id = cycles + 1, !.team_code = tc,
                                 !.outcome = IF config.enabled THEN "no_article"
                                             ELSE "disabled"]]
    /\ cycles' = cycles + 1
    /\ UNCHANGED <<now, last_fetched, runs, articles, fetch_logs, due_obs,
                   faults, config, served, ai_logs, fan, aux>>

(* notify_teams: fetchers.py lines 545-583 *)

(* what the webhook post can end in *)
PostOutcomes == {"ok", "non200", "transport"}

NotifyTeams_Raises(webhook_url, content, post) ==
    IF webhook_url = None THEN [ended |-> "raised", post |-> "none"]
    ELSE IF webhook_url = "" THEN [ended |-> "returned", post |-> "none"]
    ELSE IF post = "ok" THEN [ended |-> "returned", post |-> post]
    ELSE [ended |-> "raised", post |-> post]

(* lines 547-551 log webhook_url[:30] and len(content) before the guard  *)
(* of line 553; lines 557-583 post inside try/except Exception           *)
NotifyTeams(webhook_url, content, post) ==
    IF webhook_url = None \/ content = None
    THEN [ended |-> "raised", post |-> "none"]
    ELSE IF webhook_url = ""
    THEN [ended |-> "returned", post |-> "none"]
    ELSE [ended |-> "returned", post |-> post]

(* utils.py get_teams_webhook_async: the value of the active team's *)
(* teams_webhook row, None when the team or the row is missing      *)
WebhookRow(team) ==
    CASE team = "dev" -> "https://hook/dev"
      [] team = "infrastructure" -> "https://hook/infrastructure"
      [] OTHER -> None

GetTeamsWebhook(team) ==
    IF team \in Teams /\ TeamActive(team) THEN WebhookRow(team) ELSE None

Truthy(v) == v # None /\ v # ""

(* utils.py get_openrouter_api_key_async: the stored value, or '' when it *)
(* is missing or does not start with 'sk-or-'                             *)
KeyValues == {"", "bad-key", "sk-or-1"}

GetOpenRouterApiKey(raw) ==
    IF raw = "" THEN ""
    ELSE IF raw \notin {"sk-or-1"} THEN ""
    ELSE raw

(* fetchers.py lines 235-241: call_openrouter_ai raises when there is no *)
(* key; tasks.py lines 195-197 and 221-223 end the cycle                 *)
EnrichKey(w) ==
    /\ job[w].pc = "key"
    /\ \E raw \in KeyValues :
          IF GetOpenRouterApiKey(raw) = ""
          THEN job' = [job EXCEPT ![w] = Ended(job[w], "raised", "no_key")]
          ELSE job' = [job EXCEPT ![w].pc = "ai", ![w].call = "inflight"]
    /\ UNCHANGED <<now, last_fetched, runs, articles, fetch_logs, due_obs,
                   faults, config, cycles, served, ai_logs, fan, aux>>

(* what the request can end in *)
AIOutcomes == {"ok", "no_content", "non200", "transport"}

(* fetchers.py lines 288-353: the stripped answer, or the content argument *)
AIResult_Empty(outcome, content) ==
    IF outcome = "ok" THEN "summary" ELSE ""

AIResult(outcome, content) ==
    IF outcome = "ok" THEN "summary" ELSE content

AILogError(outcome) ==
    CASE outcome = "ok" -> ""
      [] outcome = "no_content" -> "No content from AI"
      [] outcome = "non200" -> "OpenRouter API error: 500"
      [] OTHER -> "Cannot connect to host"

(* fetchers.py lines 293-300, 317-324, 340-348: AILog.objects.create *)
AILogRow(w, outcome) ==
    [call |-> job[w].id, url |-> job[w].url,
     prompt |-> <<job[w].url, job[w].content>>,
     result |-> AIResult(outcome, job[w].content),
     status |-> IF outcome = "ok" THEN "success" ELSE "error",
     error_message |-> AILogError(outcome)]

(* fetchers.py lines 306-310: after a success, notify_teams when the team *)
(* has a webhook                                                         *)
InCallPosts(team, outcome, result, posts) ==
    IF outcome = "ok" /\ Truthy(GetTeamsWebhook(team))
    THEN { <<NotifyTeams(GetTeamsWebhook(team), result, post).post>> : post \in posts }
    ELSE { << >> }

EnrichAI_Retry(w, outcomes, posts) ==
    /\ job[w].pc = "ai"
    /\ \E outcome \in outcomes :
          /\ ai_logs' = ai_logs \cup {AILogRow(w, outcome)}
          /\ IF outcome # "ok" /\ job[w].requests < 1
             THEN job' = [job EXCEPT ![w].requests = @ + 1]
             ELSE \E posted \in InCallPosts(job[w].team, outcome,
                                            AIResult(outcome, job[w].content), posts) :
                     job' = [job EXCEPT ![w].pc = "notify", ![w].call = "returned",
                                        ![w].outcome = outcome,
                                        ![w].requests = @ + 1,
                                        ![w].posted = posted,
                                        ![w].ai_content = AIResult(outcome, job[w].content)]
    /\ UNCHANGED <<now, last_fetched, runs, articles, fetch_logs, due_obs,
                   faults, config, cycles, served, fan, aux>>

(* fetchers.py lines 276-353: the one request, the AILog row, the *)
(* notification after a success, the value returned              *)
EnrichAI(w, outcomes, posts) ==
    /\ job[w].pc = "ai"
    /\ \E outcome \in outcomes :
          /\ ai_logs' = ai_logs \cup {AILogRow(w, outcome)}
          /\ \E posted \in InCallPosts(job[w].team, outcome,
                                         AIResult(outcome, job[w].content), posts) :
                job' = [job EXCEPT ![w].pc = "notify", ![w].call = "returned",
                                   ![w].outcome = outcome,
                                   ![w].requests = @ + 1,
                                   ![w].posted = posted,
                                   ![w].ai_content = AIResult(outcome, job[w].content)]
    /\ UNCHANGED <<now, last_fetched, runs, articles, fetch_logs, due_obs,
                   faults, config, cycles, served, fan, aux>>

(* tasks.py lines 176-199: the webhook of the article's team and, when *)
(* there is one, notify_teams; an exception ends the cycle             *)
EnrichNotify(w, posts) ==
    /\ job[w].pc = "notify"
    /\ LET teams_webhook == GetTeamsWebhook(job[w].team)
       IN  IF Truthy(teams_webhook)
           THEN \E post \in posts :
                   LET r == NotifyTeams(teams_webhook, job[w].ai_content, post)
                   IN  IF r.ended = "raised"
                       THEN job' = [job EXCEPT ![w] =
                                      Ended(job[w], job[w].call, "notify_raised")]
                       ELSE job' = [job EXCEPT ![w].pc = "persist",
                                               ![w].posted = Append(@, r.post)]
           ELSE job' = [job EXCEPT ![w].pc = "persist"]
    /\ UNCHANGED <<now, last_fetched, runs, articles, fetch_logs, due_obs,
                   faults, config, cycles, served, ai_logs, fan, aux>>

(* tasks.py lines 203-216: where the transaction can fail *)
PersistFailPoints == {"none", "article", "config"}

Enriched_TagsRequested(tbl, j) ==
    { IF a.pk = j.article
      THEN [a EXCEPT !.ai_content = j.ai_content, !.is_ai_processed = TRUE,
                     !.ai_type = j.team_code]
      ELSE a : a \in tbl }

Enriched(tbl, j) ==
    { IF a.pk = j.article
      THEN [a EXCEPT !.ai_content = j.ai_content, !.is_ai_processed = TRUE,
                     !.ai_type = j.team]
      ELSE a : a \in tbl }

AtomicUpdate_NoRollback(point, tbl, cfg, j) ==
    CASE point = "none" ->
           [articles |-> Enriched(tbl, j),
            config |-> [cfg EXCEPT !.last_type_sent = j.team]]
      [] point = "config" -> [articles |-> Enriched(tbl, j), config |-> cfg]
      [] OTHER -> [articles |-> tbl, config |-> cfg]

(* with transaction.atomic(): both rows are written, or neither *)
AtomicUpdate(point, tbl, cfg, j) ==
    IF point = "none"
    THEN [articles |-> Enriched(tbl, j),
          config |-> [cfg EXCEPT !.last_type_sent = j.team]]
    ELSE [articles |-> tbl, config |-> cfg]

(* lines 201-219: the transaction on the Article row and the JobConfig row *)
EnrichPersist(w) ==
    /\ job[w].pc = "persist"
    /\ \E point \in PersistFailPoints :
          LET r == AtomicUpdate(point, articles, config, job[w])
          IN  /\ articles' = r.articles
              /\ config' = r.config
              /\ served' = IF point = "none"
                           THEN Append(served, [cursor |-> config.last_type_sent,
                                                team |-> job[w].team,
                                                article |-> job[w].article,
                                                posted |-> job[w].posted])
                           ELSE served
    /\ job' = [job EXCEPT ![w] = Ended(job[w], job[w].call, job[w].outcome)]
    /\ UNCHANGED <<now, last_fetched, runs, fetch_logs, due_obs, faults, cycles,
                   ai_logs, fan, aux>>

----------------------------------------------------------------------------

CollectorPool == {"t1", "t2"}

NextCollect ==
    \/ Tick
    \/ \E s \in Sources, tc \in TeamCodes : CollectDataFromSource(s, tc, CollectorPool)
    \/ \E tc \in TeamCodes : CollectAllActiveSources(tc, CollectorPool) /\ UNCHANGED due_obs
    \/ \E t \in Tasks : Fetch(t)
    \/ \E t \in Tasks : Dedup(t)
    \/ \E t \in Tasks : Persist(t)
    \/ \E t \in Tasks : Finish(t)

SpecCollect == Init /\ [][NextCollect]_vars

(* The due filter on its own: every clock value and every last_fetched *)
InitDue ==
    /\ now \in 0..MaxTime
    /\ last_fetched \in [Sources -> {NoTime} \cup (0..MaxTime)]
    /\ articles = {}
    /\ config = [enabled |-> TRUE, last_type_sent |-> ""]
    /\ InitCommon
    /\ InitAux

ObservedCollectAll(tc) ==
    /\ CollectAllActiveSources(tc, Tasks)
    /\ LET new == { x \in Tasks : runs[x].pc = "idle" /\ runs'[x].pc = "start" }
       IN  due_obs' = [team_code |-> tc, at |-> now, lf |-> last_fetched,
                       started |-> { runs'[x].source : x \in new },
                       tasks |-> new, entry |-> "collect_all"]

NextDue ==
    \/ Tick
    \/ \E tc \in TeamCodes : ObservedCollectAll(tc)

SpecDue == InitDue /\ [][NextDue]_vars

(* Enrichment on its own: the Article table left by a run of s1 that got *)
(* FeedA and a run of s2 that got FeedC, and any stored cursor           *)
SeedContent(u) == IF u \in {1, 7} THEN "body" ELSE ""

SeedArticles ==
    { [NewRow("t1", i, FeedA[i], "s1") EXCEPT !.content = SeedContent(FeedA[i])] :
        i \in 1..Len(FeedA) }
      \cup { [NewRow("t2", 1, FeedC[1], "s2") EXCEPT !.content = SeedContent(FeedC[1])] }

InitEnrich ==
    /\ now = 0
    /\ last_fetched = [s \in Sources |-> IF s \in {"s1", "s2"} THEN 0 ELSE NoTime]
    /\ articles = SeedArticles
    /\ config \in [enabled : {TRUE}, last_type_sent : {"", "dev", "ba", "infrastructure"}]
    /\ InitCommon
    /\ InitAux

NextEnrich ==
    \/ \E tc \in TeamCodes : EnrichSelect("w1", tc)
    \/ \E tc \in TeamCodes : EnrichNoArticle("w1", tc)
    \/ EnrichKey("w1")
    \/ EnrichAI("w1", AIOutcomes, PostOutcomes)
    \/ EnrichNotify("w1", PostOutcomes)
    \/ EnrichPersist("w1")

SpecEnrich == InitEnrich /\ [][NextEnrich]_vars

(* One collect_all_active_sources invocation and the runs it gathers; *)
(* the event loop runs every started coroutine on                    *)
GatherOnce(tc) ==
    /\ due_obs.at = NoTime
    /\ ObservedCollectAll(tc)

NextGather ==
    \/ Tick
    \/ \E tc \in TeamCodes : GatherOnce(tc)
    \/ \E t \in Tasks : Fetch(t)
    \/ \E t \in Tasks : Dedup(t)
    \/ \E t \in Tasks : Persist(t)
    \/ \E t \in Tasks : Finish(t)

SpecGather ==
    /\ Init
    /\ [][NextGather]_vars
    /\ \A t \in Tasks : WF_vars(Fetch(t) \/ Dedup(t) \/ Persist(t) \/ Finish(t))

(* Two workers inside process_openrouter_job at the same time *)
NextWorkers ==
    \/ \E w \in Workers, tc \in TeamCodes : EnrichSelect(w, tc)
    \/ \E w \in Workers, tc \in TeamCodes : EnrichNoArticle(w, tc)
    \/ \E w \in Workers : EnrichKey(w)
    \/ \E w \in Workers : EnrichAI(w, AIOutcomes, {"ok"})
    \/ \E w \in Workers : EnrichNotify(w, {"ok"})
    \/ \E w \in Workers : EnrichPersist(w)

SpecWorkers == InitEnrich /\ [][NextWorkers]_vars

Next ==
    \/ Tick
    \/ \E s \in Sources, tc \in TeamCodes : CollectDataFromSource(s, tc, {"t1"})
    \/ \E tc \in TeamCodes : CollectAllActiveSources(tc, {"t1"}) /\ UNCHANGED due_obs
    \/ \E t \in Tasks : Fetch(t)
    \/ \E t \in Tasks : Dedup(t)
    \/ \E t \in Tasks : Persist(t)
    \/ \E t \in Tasks : Finish(t)
    \/ \E tc \in TeamCodes : EnrichSelect("w1", tc)
    \/ \E tc \in TeamCodes : EnrichNoArticle("w1", tc)
    \/ EnrichKey("w1")
    \/ EnrichAI("w1", {"ok", "non200"}, {"ok"})
    \/ EnrichNotify("w1", {"ok"})
    \/ EnrichPersist("w1")

Spec == Init /\ [][Next]_vars

----------------------------------------------------------------------------
(* Properties of the collector *)

Done(t) == runs[t].pc = "done"

RowsBy(t) == { a \in articles : a.pk[1] = t }

UrlsBy(t) == { a.url : a \in RowsBy(t) }

LogsOf(t) == { l \in fetch_logs : l.run = t }

Min(a, b) == IF a <= b THEN a ELSE b

Distinct(data) == \A i, j \in DOMAIN data : data[i] = data[j] => i = j

(* the candidate entries whose URL was not stored when the run queried *)
Fresh(t) == SelectSeq(runs[t].articles_data, LAMBDA u : u \notin runs[t].existing)

(* C1: when a source is collected twice in sequence with the same         *)
(* candidate list, of whose URLs at most 5 were new, and nothing fails in  *)
(* the first run, the second run creates no Article row.                   *)
C1_DedupIdempotent ==
    \A t1, t2 \in Tasks :
        ( /\ t1 \in runs[t2].after
          /\ runs[t1].status = "success"
          /\ runs[t1].save_errors = 0
          /\ runs[t2].source = runs[t1].source
          /\ runs[t2].articles_data = runs[t1].articles_data
          /\ Cardinality(Range(runs[t1].articles_data) \ runs[t1].existing) <= 5 )
        => RowsBy(t2) = {}

(* C2: whatever the interleaving of runs, no two Article rows share a URL, *)
(* and a run whose insert lost to a row another run stored meanwhile still *)
(* ends as a success.                                                      *)
C2_UniqueUrl ==
    /\ \A a, b \in articles : a.url = b.url => a = b
    /\ \A t \in Tasks :
         (Done(t) /\ runs[t].lost > 0 /\ runs[t].raised = "none")
         => /\ runs[t].status = "success"
            /\ \A l \in LogsOf(t) : l.status = "success"

C2_Witness ==
    \E t \in Tasks :
        /\ Done(t)
        /\ runs[t].status = "success"
        /\ \E a \in articles :
              /\ a.pk[1] # t
              /\ a.url \in Range(runs[t].new_articles)
              /\ a.url \notin runs[t].existing

(* C3: the articles_count a run returns and logs is the number of Article *)
(* rows that run created.                                                 *)
C3_CountIsCreated ==
    \A t \in Tasks :
        Done(t) => /\ runs[t].articles_count = Cardinality(RowsBy(t))
                   /\ \A l \in LogsOf(t) : l.articles_count = Cardinality(RowsBy(t))

(* C4: a run creates at most 5 rows, only for the first up-to-5 candidates *)
(* (in fetch order) whose URL was not stored, the filter coming before the *)
(* truncation; with no failure every one of those URLs ends up stored.     *)
C4_CapAfterFilter ==
    \A t \in Tasks :
        LET expected == SubSeq(Fresh(t), 1, Min(Len(Fresh(t)), 5))
        IN  /\ Cardinality(RowsBy(t)) <= 5
            /\ UrlsBy(t) \subseteq Range(expected)
            /\ (Done(t) /\ runs[t].raised \in {"none", "save_source"}
                        /\ runs[t].save_errors = 0)
               => /\ \A u \in Range(expected) : \E a \in articles : a.url = u
                  /\ runs[t].lost = 0 => UrlsBy(t) = Range(expected)

C4_Witness ==
    /\ \E t \in Tasks :
          /\ Done(t)
          /\ Len(runs[t].articles_data) = 6
          /\ runs[t].existing = {}
          /\ Cardinality(RowsBy(t)) = 5
    /\ \E t \in Tasks :
          /\ Done(t)
          /\ Len(runs[t].articles_data) = 6
          /\ runs[t].articles_data[1] \in runs[t].existing
          /\ UrlsBy(t) = {6}

(* C5: a run whose fetch returns n entries with distinct URLs, none of    *)
(* them stored, and in which nothing fails and no other run stores one of *)
(* them meanwhile, creates min(n, 5) rows and writes one success FetchLog *)
(* row carrying that count.                                               *)
C5_SuccessPath ==
    \A t \in Tasks :
        ( /\ Done(t)
          /\ runs[t].raised = "none"
          /\ runs[t].save_errors = 0
          /\ runs[t].lost = 0
          /\ runs[t].existing = {}
          /\ Distinct(runs[t].articles_data) )
        => LET n == Len(runs[t].articles_data)
           IN  /\ Cardinality(RowsBy(t)) = Min(n, 5)
               /\ Cardinality(LogsOf(t)) = 1
               /\ \A l \in LogsOf(t) : /\ l.status = "success"
                                       /\ l.articles_count = Min(n, 5)
                                       /\ l.source = runs[t].source

C5_Witness ==
    \E t \in Tasks :
        /\ Done(t)
        /\ runs[t].raised = "none"
        /\ runs[t].save_errors = 0
        /\ runs[t].lost = 0
        /\ runs[t].existing = {}
        /\ runs[t].articles_data = FeedA
        /\ Cardinality(RowsBy(t)) = 3

(* C6: a run whose fetch raises leaves exactly one FetchLog row for that *)
(* run, with status error, articles_count 0 and a non-empty              *)
(* error_message, and creates no Article row.                            *)
C6_FetchErrorLog ==
    \A t \in Tasks :
        (Done(t) /\ runs[t].raised = "fetch")
        => /\ Cardinality(LogsOf(t)) = 1
           /\ \A l \in LogsOf(t) : /\ l.status = "error"
                                   /\ l.articles_count = 0
                                   /\ l.error_message # ""
           /\ RowsBy(t) = {}

(* C7: after a run of a non-forced source ended in error at time t, the *)
(* source is not due again before t + fetch_interval.                   *)
C7_ErrorAdvancesCadence ==
    \A l \in fetch_logs :
        ( /\ l.status = "error"
          /\ ~SourceRow(l.source).force_collect
          /\ now < l.fetched_at + SourceRow(l.source).fetch_interval )
        => l.source \notin DueSources("", now)

(* C8: every run of collect_from_source that has returned left exactly  *)
(* one FetchLog row and a run that has not returned none, whichever way *)
(* the run ended; and no step of the collector or of the enrichment job *)
(* changes or removes a FetchLog row.                                   *)
C8_OneLogPerRun ==
    /\ [](\A t \in Tasks : Cardinality(LogsOf(t)) = IF Done(t) THEN 1 ELSE 0)
    /\ [][fetch_logs \subseteq fetch_logs']_vars

C8_Witness ==
    /\ Done("t1")
    /\ runs["t1"].raised = "save_source"
    /\ RowsBy("t1") # {}
    /\ Len(served) > 0
    /\ Cardinality(fetch_logs) = 1

----------------------------------------------------------------------------
(* Properties of the due filter *)

(* C9: collect_all_active_sources at time now starts a run for an active *)
(* source (of the requested team) if and only if force_collect is true,  *)
(* or last_fetched is null, or now - last_fetched >= fetch_interval; a   *)
(* source fetched exactly one interval ago is due, and a forced source   *)
(* is selected whatever its last_fetched.                                *)
C9_DuePredicate ==
    /\ due_obs.at # NoTime
       => /\ due_obs.started =
               { s \in Sources :
                   /\ SourceRow(s).is_active
                   /\ due_obs.team_code = "" \/ SourceRow(s).team = due_obs.team_code
                   /\ \/ SourceRow(s).force_collect
                      \/ due_obs.lf[s] = NoTime
                      \/ due_obs.at - due_obs.lf[s] >= SourceRow(s).fetch_interval }
          /\ \A s \in Sources :
               ( /\ SourceRow(s).is_active
                 /\ SourceRow(s).force_collect
                 /\ due_obs.team_code \in {"", SourceRow(s).team} )
               => s \in due_obs.started
    /\ IsDueRow(FALSE, 10000 - 3601, 3600, 10000)
    /\ ~IsDueRow(FALSE, 10000 - 3599, 3600, 10000)
    /\ IsDueRow(FALSE, 10000 - 3600, 3600, 10000)

C9_Witness ==
    /\ due_obs.at = 2
    /\ due_obs.team_code = ""
    /\ due_obs.lf["s1"] = 1
    /\ due_obs.lf["s2"] = 2
    /\ due_obs.lf["s3"] = 0
    /\ due_obs.started = {"s2", "s3"}

----------------------------------------------------------------------------
(* Properties of the enrichment job *)

ActiveTeams == { t \in Teams : TeamActive(t) }

RotationOrders ==
    { o \in [1..Cardinality(ActiveTeams) -> ActiveTeams] :
        \A i, j \in DOMAIN o : o[i] = o[j] => i = j }

NextInRotation(o, cursor) ==
    IF \E i \in DOMAIN o : o[i] = cursor
    THEN o[((CHOOSE i \in DOMAIN o : o[i] = cursor) % Len(o)) + 1]
    ELSE o[1]

(* C10: there is a fixed rotation order of the active teams such that    *)
(* every enrichment cycle serves the team that follows the stored cursor *)
(* in that order, and the first team of the order when the cursor names  *)
(* no active team.                                                       *)
C10_RoundRobin ==
    \E o \in RotationOrders :
        \A i \in DOMAIN served : served[i].team = NextInRotation(o, served[i].cursor)

Processed == { a \in articles : a.is_ai_processed }

(* C11: the persist step of an enrichment cycle either stores            *)
(* is_ai_processed, ai_content and ai_type on the article and sets the   *)
(* cursor last_type_sent to that team, or changes none of them, wherever *)
(* it fails; no state has an article marked enriched without the cursor  *)
(* advanced, or the reverse.                                             *)
C11_PersistAtomic ==
    /\ [](/\ Cardinality(Processed) = Len(served)
          /\ Len(served) > 0 => config.last_type_sent = served[Len(served)].team)
    /\ [][\A w \in Workers :
            (job[w].pc = "persist" /\ job'[w].pc = "idle")
            => \/ /\ \E a \in articles' :
                        /\ a.pk = job[w].article
                        /\ a.is_ai_processed
                        /\ a.ai_content = job[w].ai_content
                        /\ a.ai_type = job[w].team
                  /\ config'.last_type_sent = job[w].team
               \/ /\ articles' = articles
                  /\ config' = config]_vars

C11_Witness ==
    /\ job["w1"].pc = "idle"
    /\ job["w1"].call = "returned"
    /\ cycles = 2
    /\ Len(served) = 1
    /\ Cardinality(Processed) = 1

(* C12: once an Article has is_ai_processed = TRUE it keeps it in every  *)
(* later step of the collector and of the enrichment job, and a step of *)
(* a collection run changes no field of a row that already exists, also *)
(* when the run meets the URL of that row again.                        *)
C12_FlagMonotone ==
    [][/\ \A a \in articles :
            a.is_ai_processed
            => \E b \in articles' : b.pk = a.pk /\ b.url = a.url /\ b.is_ai_processed
       /\ runs' # runs => articles \subseteq articles']_vars

C12_Witness ==
    \E t \in Tasks :
        /\ runs[t].found_enriched > 0
        /\ \E a \in Processed : a.url \in Range(runs[t].new_articles)

(* C13: when two workers run process_openrouter_job concurrently, no    *)
(* article has been sent to the AI service by both (so none is written  *)
(* twice), and the two do not serve the same team.                      *)
C13_NoDoubleProcessing ==
    \A w1, w2 \in Workers :
        ( /\ w1 # w2
          /\ job[w1].pc \in {"ai", "persist"}
          /\ job[w2].pc \in {"ai", "persist"} )
        => /\ job[w1].article # job[w2].article
           /\ job[w1].team # job[w2].team

----------------------------------------------------------------------------
(* Properties of call_openrouter_ai *)

LogsOfCall(id) == { l \in ai_logs : l.call = id }

(* C14: call_openrouter_ai never raises; on every failure (no usable API *)
(* key, transport error, non-200 answer, answer without content) it      *)
(* returns its content argument unchanged.                               *)
C14_NeverRaises ==
    \A w \in Workers :
        /\ job[w].call # "raised"
        /\ (job[w].pc = "persist" /\ job[w].outcome # "ok")
           => job[w].ai_content = job[w].content

(* C15: every call of call_openrouter_ai that has ended, whatever its   *)
(* outcome and also when it failed before a request was sent, has left  *)
(* exactly one AILog row, of status success or error.                   *)
C15_OneAILogPerCall ==
    \A w \in Workers :
        job[w].call \in {"returned", "raised"}
        => /\ Cardinality(LogsOfCall(job[w].id)) = 1
           /\ \A l \in LogsOfCall(job[w].id) : l.status \in {"success", "error"}

(* C16: when the endpoint answers with a non-200 status, or with a 200 *)
(* answer that has no content, call_openrouter_ai creates an AILog row *)
(* of status error and returns its content argument.                   *)
C16_Non200Fallback ==
    \A w \in Workers :
        (job[w].pc = "persist" /\ job[w].outcome \in {"non200", "no_content"})
        => /\ job[w].ai_content = job[w].content
           /\ Cardinality(LogsOfCall(job[w].id)) = 1
           /\ \A l \in LogsOfCall(job[w].id) :
                 /\ l.status = "error"
                 /\ l.result = job[w].content
                 /\ l.url = job[w].url

C16_Witness ==
    /\ job["w1"].pc = "persist"
    /\ job["w1"].outcome = "non200"
    /\ job["w1"].content = "body"
    /\ job["w1"].ai_content = "body"

(* C17: an enrichment cycle whose article has no extracted content sends *)
(* no AI request for it and leaves it with is_ai_processed = FALSE.      *)
C17_ExtractionFailureSkips ==
    /\ \A w \in Workers : job[w].pc \in {"ai", "persist"} => job[w].content # ""
    /\ \A a \in Processed : a.content # ""

(* C18: at no time are two call_openrouter_ai requests in flight, over *)
(* all enrichment cycles of all workers.                               *)
C18_AICallsSerialized ==
    Cardinality({ w \in Workers : job[w].pc = "ai" }) <= 1

----------------------------------------------------------------------------
(* Properties of the gathered runs *)

(* C19: in one collect_all_active_sources invocation every selected     *)
(* source gets one run of its own, every run ends with one FetchLog row *)
(* of its own whatever the other runs do, and a run in which nothing    *)
(* fails ends as a success with its new URLs stored, also when other    *)
(* runs of the invocation fail.                                         *)
C19_SourceIsolation ==
    /\ [](/\ Cardinality(due_obs.tasks) = Cardinality(due_obs.started)
          /\ \A t \in due_obs.tasks :
                /\ runs[t].source \in due_obs.started
                /\ runs[t].raised # "cancelled"
                /\ ~Done(t) => LogsOf(t) = {}
                /\ Done(t) => /\ Cardinality(LogsOf(t)) = 1
                              /\ \A l \in LogsOf(t) : /\ l.source = runs[t].source
                                                      /\ l.status = runs[t].status
                /\ (Done(t) /\ runs[t].raised = "none")
                   => /\ runs[t].status = "success"
                      /\ runs[t].save_errors = 0
                         => \A u \in Range(runs[t].new_articles) :
                               \E a \in articles : a.url = u)
    /\ (due_obs.at # NoTime) ~> (\A t \in due_obs.tasks : Done(t))

C19_Witness ==
    /\ Cardinality(due_obs.tasks) = 3
    /\ \A t \in due_obs.tasks : Done(t)
    /\ \E t1, t2, t3 \in due_obs.tasks :
          /\ runs[t1].raised = "select"
          /\ runs[t2].raised = "fetch"
          /\ runs[t3].status = "success"
          /\ RowsBy(t3) # {}

----------------------------------------------------------------------------
(* Fan-out of one collection trigger, seen as counts *)

MaxDue == 11

MAX_SOURCES == 10

(* fetchers.py lines 533-537: one coroutine per selected source, gathered *)
CollectAllFan(n) ==
    /\ fan.entry = "none"
    /\ n > 0
    /\ fan' = [entry |-> "collect_all", due |-> n, launched |-> n, logged |-> 0]
    /\ UNCHANGED <<now, last_fetched, runs, articles, fetch_logs, due_obs, faults,
                   config, job, cycles, served, ai_logs, aux>>

(* collect_data.py lines 41-55: the first MAX_SOURCES due sources, gathered *)
CommandFan(n) ==
    /\ fan.entry = "none"
    /\ n > 0
    /\ fan' = [entry |-> "command", due |-> n, launched |-> Min(n, MAX_SOURCES),
               logged |-> 0]
    /\ UNCHANGED <<now, last_fetched, runs, articles, fetch_logs, due_obs, faults,
                   config, job, cycles, served, ai_logs, aux>>

(* fetchers.py lines 512-517: one of the launched runs writes its FetchLog *)
FanLogged ==
    /\ fan.logged < fan.launched
    /\ fan' = [fan EXCEPT !.logged = @ + 1]
    /\ UNCHANGED <<now, last_fetched, runs, articles, fetch_logs, due_obs, faults,
                   config, job, cycles, served, ai_logs, aux>>

(* the gather returns once every launched run has returned *)
FanReturn ==
    /\ fan.entry # "none"
    /\ fan.logged = fan.launched
    /\ fan' = NoFan
    /\ UNCHANGED <<now, last_fetched, runs, articles, fetch_logs, due_obs, faults,
                   config, job, cycles, served, ai_logs, aux>>

NextFan ==
    \/ \E n \in 0..MaxDue : CollectAllFan(n)
    \/ \E n \in 0..MaxDue : CommandFan(n)
    \/ FanLogged
    \/ FanReturn

SpecFan == Init /\ [][NextFan]_vars

(* C20: within one trigger the number of source-runs that are between *)
(* Fetching and Logged at the same time never exceeds the cap of 10,  *)
(* whatever the size of the due set.                                  *)
C20_BoundedFanOut ==
    fan.launched - fan.logged <= MAX_SOURCES

----------------------------------------------------------------------------
(* Properties of the fetcher selection *)

(* C21: create_fetcher gives the RSS, API and AgentQL fetcher for the    *)
(* types rss, api and static and raises for every other type; a run of  *)
(* a source of another type fetches nothing, creates no Article row and *)
(* ends with one FetchLog row of status error.                          *)
C21_FetcherFailsClosed ==
    /\ CreateFetcher("rss") = "RSSFetcher"
    /\ CreateFetcher("api") = "APIFetcher"
    /\ CreateFetcher("static") = "AgentQLFetcher"
    /\ \A ty \in SourceTypes \ {"rss", "api", "static"} : CreateFetcher(ty) = "ValueError"
    /\ \A t \in Tasks :
         ( /\ runs[t].source \in Sources
           /\ SourceRow(runs[t].source).type \notin {"rss", "api", "static"} )
         => /\ runs[t].pc \in {"start", "done"}
            /\ runs[t].articles_data = << >>
            /\ RowsBy(t) = {}
            /\ Done(t) => /\ runs[t].raised = "select"
                          /\ Cardinality(LogsOf(t)) = 1
                          /\ \A l \in LogsOf(t) : /\ l.status = "error"
                                                  /\ l.articles_count = 0
                                                  /\ l.error_message # ""

C21_Witness ==
    \E t \in Tasks :
        /\ Done(t)
        /\ SourceRow(runs[t].source).type = "ftp"
        /\ \E l \in LogsOf(t) : l.status = "error"
        /\ \E t2 \in Tasks : Done(t2) /\ RowsBy(t2) # {}

----------------------------------------------------------------------------
(* notify_teams called on its own, over its arguments *)

WebhookArgs == {None, "", "https://hook/dev", "https://hook/ba"}

InitNotify ==
    /\ now = 0
    /\ last_fetched = [s \in Sources |-> NoTime]
    /\ articles = {}
    /\ config = [enabled |-> TRUE, last_type_sent |-> ""]
    /\ InitCommon
    /\ syscfg = NoSysCfg
    /\ notify \in [pc : {"called"}, webhook_url : WebhookArgs,
                   title : {"dev", "ba"}, content : {"", "summary", "body"},
                   url : {None, "https://a/1"}, ended : {"none"}, post : {"none"}]

CallNotifyTeams ==
    /\ notify.pc = "called"
    /\ \E post \in PostOutcomes :
          LET r == NotifyTeams(notify.webhook_url, notify.content, post)
          IN  notify' = [notify EXCEPT !.pc = "ended", !.ended = r.ended,
                                       !.post = r.post]
    /\ UNCHANGED <<now, last_fetched, runs, articles, fetch_logs, due_obs, faults,
                   config, job, cycles, served, ai_logs, fan, more, view, syscfg, trig>>

NextNotify == CallNotifyTeams

SpecNotify == InitNotify /\ [][NextNotify]_vars

(* C22: notify_teams called with an absent (None) or an empty webhook *)
(* URL returns normally and sends no request.                        *)
C22_AbsentWebhookNoOp ==
    (notify.pc = "ended" /\ notify.webhook_url \in {None, ""})
    => /\ notify.ended = "returned"
       /\ notify.post = "none"

----------------------------------------------------------------------------
(* Properties of the notification inside an enrichment cycle *)

(* C23: when the webhook post of an enrichment cycle fails, by an        *)
(* exception or a non-200 answer, notify_teams returns, the cycle goes  *)
(* on to its persist step with the same article and AI content, and a   *)
(* cycle that commits marks the article enriched and sets the cursor to *)
(* its team, as it does after a delivered notification.                 *)
C23_NotifyBestEffort ==
    /\ [][\A w \in Workers :
            (job[w].pc = "notify" /\ job'[w] # job[w])
            => /\ job'[w].pc = "persist"
               /\ job'[w].article = job[w].article
               /\ job'[w].ai_content = job[w].ai_content
               /\ job'[w].team = job[w].team
               /\ articles' = articles
               /\ config' = config]_vars
    /\ [][\A w \in Workers :
            (job[w].pc = "persist" /\ served' # served)
            => /\ \E a \in articles' :
                     /\ a.pk = job[w].article
                     /\ a.is_ai_processed
                     /\ a.ai_content = job[w].ai_content
               /\ config'.last_type_sent = job[w].team
               /\ served'[Len(served')].posted = job[w].posted]_vars
    /\ [](\A w \in Workers : job[w].outcome # "notify_raised")

C23_Witness ==
    /\ Len(served) = 2
    /\ served[1].posted = <<"ok", "ok">>
    /\ served[2].posted = <<"transport", "non200">>
    /\ \A i \in 1..2 : \E a \in Processed : a.pk = served[i].article /\ a.ai_type = "dev"
    /\ config.last_type_sent = "dev"

----------------------------------------------------------------------------
(* The trigger tasks of tasks.py as try/except structure: the calls of a *)
(* task body in order, what each can raise, and the except clauses      *)
(* around it, innermost first                                           *)

TriggerOps == {"collect_data_from_source", "collect_data_from_all_sources",
               "scheduled_collection", "process_openrouter_job"}

Frame(catches, then) == [catches |-> catches, then |-> then]

Point(name, raises, frames, early) ==
    [name |-> name, raises |-> raises, frames |-> frames, early |-> early]

(* the last except clause of each task: return {'success': False, ...} *)
Outer_Narrow == Frame("DoesNotExist", "failure")

Outer == Frame("Exception", "failure")

Body(op) ==
    CASE op = "collect_data_from_source" ->
           << Point("get_source", {"DoesNotExist", "Exception"},
                    <<Frame("DoesNotExist", "failure"), Outer>>, FALSE),
              Point("new_event_loop", {"Exception"},
                    <<Frame("DoesNotExist", "failure"), Outer>>, FALSE),
              Point("collect_from_source", {"Exception"},
                    <<Frame("DoesNotExist", "failure"), Outer>>, FALSE),
              Point("loop_close", {"Exception"},
                    <<Frame("DoesNotExist", "failure"), Outer>>, FALSE) >>
      [] op = "collect_data_from_all_sources" ->
           << Point("new_event_loop", {"Exception"}, <<Outer>>, FALSE),
              Point("due_query", {"Exception"}, <<Outer>>, FALSE),
              Point("collect_from_source", {"Exception"},
                    <<Frame("Exception", "continue"), Outer>>, FALSE),
              Point("loop_close", {"Exception"}, <<Outer>>, FALSE) >>
      [] op = "scheduled_collection" ->
           << Point("due_query", {"Exception"}, <<Outer>>, TRUE),
              Point("delay", {"Exception"}, <<Outer>>, FALSE) >>
      [] OTHER ->
           << Point("config", {"Exception"}, <<Outer>>, TRUE),
              Point("article", {"Exception"}, <<Outer>>, TRUE),
              Point("team", {"Exception"}, <<Outer>>, FALSE),
              Point("new_event_loop", {"Exception"}, <<Outer>>, FALSE),
              Point("call_openrouter_ai", {"Exception"},
                    <<Frame("Exception", "reraise"), Outer>>, FALSE),
              Point("get_teams_webhook", {"DoesNotExist", "Exception"},
                    <<Frame("DoesNotExist", "continue"), Frame("Exception", "continue"),
                      Frame("Exception", "reraise"), Outer>>, FALSE),
              Point("notify_teams", {"Exception"},
                    <<Frame("Exception", "continue"), Frame("Exception", "reraise"),
                      Outer>>, FALSE),
              Point("loop_close", {"Exception"},
                    <<Frame("Exception", "continue"), Outer>>, FALSE),
              Point("transaction", {"Exception"},
                    <<Frame("Exception", "failure"), Outer>>, FALSE) >>

(* except C as e: C = Exception catches every exception of the model *)
Catches(frame, exc) == frame.catches = "Exception" \/ frame.catches = exc

TrigStart(op) ==
    /\ trig.pc = "idle"
    /\ trig' = [NoTrig EXCEPT !.op = op, !.pc = "running", !.at = 1]
    /\ UNCHANGED <<now, last_fetched, runs, articles, fetch_logs, due_obs, faults,
                   config, job, cycles, served, ai_logs, fan, more, notify, view, syscfg>>

(* the call at the current point returns *)
TrigPass ==
    /\ trig.pc = "running"
    /\ trig.at <= Len(Body(trig.op))
    /\ trig' = [trig EXCEPT !.at = @ + 1]
    /\ UNCHANGED <<now, last_fetched, runs, articles, fetch_logs, due_obs, faults,
                   config, job, cycles, served, ai_logs, fan, more, notify, view, syscfg>>

(* the early returns: nothing due, job disabled, no article *)
TrigReturnEarly ==
    /\ trig.pc = "running"
    /\ trig.at <= Len(Body(trig.op))
    /\ Body(trig.op)[trig.at].early
    /\ trig' = [trig EXCEPT !.pc = "returned", !.result = "success"]
    /\ UNCHANGED <<now, last_fetched, runs, articles, fetch_logs, due_obs, faults,
                   config, job, cycles, served, ai_logs, fan, more, notify, view, syscfg>>

(* the call at the current point raises *)
TrigRaise(exc) ==
    /\ trig.pc = "running"
    /\ trig.at <= Len(Body(trig.op))
    /\ exc \in Body(trig.op)[trig.at].raises
    /\ trig' = [trig EXCEPT !.pc = "unwinding", !.exc = exc,
                            !.point = Body(trig.op)[trig.at].name,
                            !.frames = Body(trig.op)[trig.at].frames]
    /\ UNCHANGED <<now, last_fetched, runs, articles, fetch_logs, due_obs, faults,
                   config, job, cycles, served, ai_logs, fan, more, notify, view, syscfg>>

(* the exception meets the next except clause on its way out *)
TrigUnwind ==
    /\ trig.pc = "unwinding"
    /\ IF trig.frames = << >>
       THEN trig' = [trig EXCEPT !.pc = "raised"]
       ELSE LET f == Head(trig.frames)
            IN  IF ~Catches(f, trig.exc) \/ f.then = "reraise"
                THEN trig' = [trig EXCEPT !.frames = Tail(@)]
                ELSE IF f.then = "continue"
                THEN trig' = [trig EXCEPT !.pc = "running", !.at = @ + 1,
                                          !.frames = << >>,
                                          !.swallowed = @ \cup {trig.point}]
                ELSE trig' = [trig EXCEPT !.pc = "returned", !.frames = << >>,
                                          !.result = "failure"]
    /\ UNCHANGED <<now, last_fetched, runs, articles, fetch_logs, due_obs, faults,
                   config, job, cycles, served, ai_logs, fan, more, notify, view, syscfg>>

(* the end of the body: return {'success': True, ...} *)
TrigReturn ==
    /\ trig.pc = "running"
    /\ trig.at > Len(Body(trig.op))
    /\ trig' = [trig EXCEPT !.pc = "returned", !.result = "success"]
    /\ UNCHANGED <<now, last_fetched, runs, articles, fetch_logs, due_obs, faults,
                   config, job, cycles, served, ai_logs, fan, more, notify, view, syscfg>>

NextTrig ==
    \/ \E op \in TriggerOps : TrigStart(op)
    \/ TrigPass
    \/ TrigReturnEarly
    \/ \E exc \in {"DoesNotExist", "Exception"} : TrigRaise(exc)
    \/ TrigUnwind
    \/ TrigReturn

SpecTrig == Init /\ [][NextTrig]_vars

(* C24: none of collect_data_from_source, collect_data_from_all_sources, *)
(* scheduled_collection and process_openrouter_job lets an exception    *)
(* out: whatever a call of its body raises, a failing FetchLog write    *)
(* included, the task returns a result with success true or false.      *)
C24_TriggersReturn ==
    /\ trig.pc # "raised"
    /\ trig.pc = "returned" => trig.result \in {"success", "failure"}
    /\ (trig.pc = "returned" /\ trig.exc # "none" /\ trig.point \notin trig.swallowed)
       => trig.result = "failure"

C24_Witness ==
    /\ trig.pc = "returned"
    /\ trig.op = "collect_data_from_all_sources"
    /\ trig.point = "loop_close"
    /\ trig.swallowed = {"collect_from_source"}
    /\ trig.result = "failure"

----------------------------------------------------------------------------
(* JobConfigView.post: views_jobconfig.py lines 21-28 *)

(* the 'enabled' entry of the request body *)
PostedEnabled == {"absent", "true", "false"}

(* line 24: data.get('enabled', config.enabled) *)
DataGetEnabled(data, row) ==
    CASE data = "true" -> TRUE
      [] data = "false" -> FALSE
      [] OTHER -> row.enabled

(* lines 22-23: the body and the JobConfig row, as it is now *)
ViewPostRead(data) ==
    /\ view.pc = "idle"
    /\ view' = [pc |-> "read", row |-> config, data |-> data]
    /\ UNCHANGED <<now, last_fetched, runs, articles, fetch_logs, due_obs, faults,
                   config, job, cycles, served, ai_logs, fan, more, notify, syscfg, trig>>

(* lines 24-27: config.save() writes every field of the object that was read *)
ViewPostSave ==
    /\ view.pc = "read"
    /\ config' = [view.row EXCEPT !.enabled = DataGetEnabled(view.data, view.row)]
    /\ view' = NoView
    /\ UNCHANGED <<now, last_fetched, runs, articles, fetch_logs, due_obs, faults,
                   job, cycles, served, ai_logs, fan, more, notify, syscfg, trig>>

NextView ==
    \/ \E tc \in TeamCodes : EnrichSelect("w1", tc)
    \/ \E tc \in TeamCodes : EnrichNoArticle("w1", tc)
    \/ EnrichKey("w1")
    \/ EnrichAI("w1", {"ok", "transport"}, {"ok"})
    \/ EnrichNotify("w1", {"ok"})
    \/ EnrichPersist("w1")
    \/ \E data \in PostedEnabled : ViewPostRead(data)
    \/ ViewPostSave

SpecView == InitEnrich /\ [][NextView]_vars

(* C25: the cursor last_type_sent changes only in the persist step of an *)
(* enrichment cycle, which sets it to the team of that cycle; no step of *)
(* JobConfigView.post changes it, also when the post runs while an      *)
(* enrichment cycle is between reading the JobConfig row and saving it. *)
C25_CursorSingleWriter ==
    [][config'.last_type_sent # config.last_type_sent
       => \E w \in Workers : /\ job[w].pc = "persist"
                             /\ job'[w].pc = "idle"
                             /\ config'.last_type_sent = job[w].team]_vars

----------------------------------------------------------------------------
(* The collect_data management command without --source-id: *)
(* collect_data.py lines 37-57                              *)

(* lines 42-46: the due filter written in Python; force_collect is not read *)
CommandDue(t) ==
    { s \in Sources :
        /\ SourceRow(s).is_active
        /\ \/ last_fetched[s] = NoTime
           \/ t - last_fetched[s] >= SourceRow(s).fetch_interval }

(* lines 51-55 without --force, line 57 with --force *)
CollectDataCommand(force, pool) ==
    IF force
    THEN CollectAllActiveSources("", pool)
    ELSE LET due == SelectSeq(SourceOrder, LAMBDA s : s \in CommandDue(now))
             order == SubSeq(due, 1, Min(Len(due), MAX_SOURCES))
             free == FreeTasks(pool)
         IN  /\ Len(order) <= Len(free)
             /\ runs' = [t \in Tasks |->
                           IF \E k \in 1..Len(order) : free[k] = t
                           THEN LET k == CHOOSE k \in 1..Len(order) : free[k] = t
                                IN  StartedRun(order[k])
                           ELSE runs[t]]
             /\ UNCHANGED <<now, last_fetched, articles, fetch_logs, faults,
                            config, job, cycles, served, ai_logs, fan, aux>>

ObservedCommand(force) ==
    /\ CollectDataCommand(force, Tasks)
    /\ LET new == { x \in Tasks : runs[x].pc = "idle" /\ runs'[x].pc = "start" }
       IN  due_obs' = [team_code |-> "", at |-> now, lf |-> last_fetched,
                       started |-> { runs'[x].source : x \in new },
                       tasks |-> new,
                       entry |-> IF force THEN "command_force" ELSE "command"]

NextCommand ==
    \/ Tick
    \/ \E force \in BOOLEAN : ObservedCommand(force)

SpecCommand == InitDue /\ [][NextCommand]_vars

(* C26: the collect_data command run with --force and without        *)
(* --source-id starts a run for every active source, also for one    *)
(* with force_collect false that was fetched less than one interval *)
(* ago.                                                              *)
C26_ForceIgnoresInterval ==
    due_obs.entry = "command_force"
    => due_obs.started = { s \in Sources : SourceRow(s).is_active }

----------------------------------------------------------------------------
(* get_system_config and get_system_config_async for one key without a *)
(* team: utils.py lines 12-70.  In this part the clock counts seconds. *)

MaxClock == 400
MaxChanges == 2

(* the default of the cache_timeout parameter *)
cache_timeout == 300

(* the value column of the active row of the key; None when there is no *)
(* active row                                                           *)
StoreValues == {None, "", " k1 ", "k2"}

(* config.value.strip() if config.value else '' *)
Strip(v) == IF v = " k1 " THEN "k1" ELSE v

(* cache.get: the entry, unless it is missing or its time has come *)
CacheGet_NeverExpires(c, t) == c.cached

CacheGet(c, t) == IF c.cached # None /\ t < c.expires THEN c.cached ELSE None

InitCache ==
    /\ now = 0
    /\ last_fetched = [s \in Sources |-> NoTime]
    /\ articles = {}
    /\ config = [enabled |-> TRUE, last_type_sent |-> ""]
    /\ InitCommon
    /\ notify = NoNotify
    /\ \E v \in StoreValues : syscfg = [NoSysCfg EXCEPT !.store = v]

CacheTick(d) ==
    /\ syscfg.pc = "idle"
    /\ now + d <= MaxClock
    /\ now' = now + d
    /\ UNCHANGED <<last_fetched, runs, articles, fetch_logs, due_obs, faults,
                   config, job, cycles, served, ai_logs, fan, aux>>

(* the admin saves, deactivates or deletes the row *)
StoreChange(v) ==
    /\ syscfg.changes < MaxChanges
    /\ v # syscfg.store
    /\ syscfg' = [syscfg EXCEPT !.store = v, !.changes = @ + 1, !.changed_at = now]
    /\ UNCHANGED <<now, last_fetched, runs, articles, fetch_logs, due_obs, faults,
                   config, job, cycles, served, ai_logs, fan, more, notify, view, trig>>

(* lines 14-19: the cache is asked first *)
LookupCache ==
    /\ syscfg.pc = "idle"
    /\ LET value == CacheGet(syscfg, now)
       IN  IF value # None
           THEN syscfg' = [syscfg EXCEPT !.lookups = (@ + 1) % 2, !.value = value,
                                         !.from = "cache"]
           ELSE syscfg' = [syscfg EXCEPT !.pc = "query"]
    /\ UNCHANGED <<now, last_fetched, runs, articles, fetch_logs, due_obs, faults,
                   config, job, cycles, served, ai_logs, fan, more, notify, view, trig>>

(* lines 23-27: the first active row of the key *)
LookupQuery ==
    /\ syscfg.pc = "query"
    /\ syscfg' = [syscfg EXCEPT !.pc = "set", !.read = syscfg.store]
    /\ UNCHANGED <<now, last_fetched, runs, articles, fetch_logs, due_obs, faults,
                   config, job, cycles, served, ai_logs, fan, more, notify, view, trig>>

(* lines 28-36: strip, cache.set and return; None when there was no row *)
LookupSet ==
    /\ syscfg.pc = "set"
    /\ IF syscfg.read # None
       THEN syscfg' = [syscfg EXCEPT !.pc = "idle", !.read = None,
                                     !.cached = Strip(syscfg.read),
                                     !.expires = now + cache_timeout,
                                     !.lookups = (@ + 1) % 2,
                                     !.value = Strip(syscfg.read),
                                     !.from = "store"]
       ELSE syscfg' = [syscfg EXCEPT !.pc = "idle", !.read = None,
                                     !.lookups = (@ + 1) % 2,
                                     !.value = None, !.from = "store"]
    /\ UNCHANGED <<now, last_fetched, runs, articles, fetch_logs, due_obs, faults,
                   config, job, cycles, served, ai_logs, fan, more, notify, view, trig>>

NextCache ==
    \/ \E d \in {100, 199} : CacheTick(d)
    \/ \E v \in StoreValues : StoreChange(v)
    \/ LookupCache
    \/ LookupQuery
    \/ LookupSet

SpecCache == InitCache /\ [][NextCache]_vars

Returns == syscfg'.lookups # syscfg.lookups

(* C27 as stated: the value a lookup returns after a cache miss is the *)
(* value of the active row of the store.                              *)
C27_ReturnsStoreValue ==
    [][(Returns /\ syscfg'.from = "store" /\ syscfg.read # None)
       => syscfg'.value = syscfg.read]_vars

(* C27 amended: after a cache miss a lookup returns the value of the     *)
(* active row with surrounding whitespace removed and caches that for    *)
(* 300 seconds; within the 300 seconds a lookup returns the cached value *)
(* without reading the store; from 300 seconds after the entry was set   *)
(* a lookup reads the store again, so that a lookup 300 seconds or more  *)
(* after the last change of the row returns the new value; without an   *)
(* active row a lookup returns None and caches nothing.                  *)
C27_CachedLookup ==
    /\ [][(Returns /\ syscfg'.from = "store" /\ syscfg.read # None)
          => /\ syscfg'.value = Strip(syscfg.read)
             /\ syscfg'.cached = Strip(syscfg.read)
             /\ syscfg'.expires = now + cache_timeout]_vars
    /\ [][(Returns /\ syscfg'.from = "store" /\ syscfg.read = None)
          => /\ syscfg'.value = None
             /\ syscfg'.cached = syscfg.cached
             /\ syscfg'.expires = syscfg.expires]_vars
    /\ [][(syscfg.pc = "idle" /\ syscfg.cached # None /\ now < syscfg.expires
           /\ syscfg'.store = syscfg.store /\ now' = now)
          => /\ syscfg'.pc = "idle"
             /\ syscfg'.value = syscfg.cached
             /\ syscfg'.from = "cache"]_vars
    /\ [][(syscfg.pc = "idle" /\ (syscfg.cached = None \/ now >= syscfg.expires)
           /\ syscfg'.store = syscfg.store /\ now' = now)
          => syscfg'.pc = "query"]_vars
    /\ [][(Returns /\ now >= syscfg.changed_at + cache_timeout)
          => syscfg'.value = Strip(syscfg.store)]_vars

C27_Witness ==
    /\ now = 299
    /\ syscfg.store = "k2"
    /\ syscfg.changed_at = 100
    /\ syscfg.cached = "k1"
    /\ syscfg.expires = 300
    /\ syscfg.from = "cache"
    /\ syscfg.value = "k1"

----------------------------------------------------------------------------
(* Properties of the article selection *)

(* C28: an enrichment cycle picks, among the articles that are not yet   *)
(* processed (of the sources of team_code when one is given), one with  *)
(* the smallest published_at; when there is none the cycle ends without *)
(* an AI call, without a notification and without changing an Article   *)
(* or the cursor.                                                       *)
C28_OldestUnenriched ==
    /\ [][\A w \in Workers :
            (job[w].pc = "idle" /\ job'[w] # job[w] /\ config.enabled)
            => LET tc == job'[w].team_code
                   cand == { a \in articles :
                               /\ ~a.is_ai_processed
                               /\ tc = "" \/ SourceRow(a.source).team = tc }
               IN  IF cand # {}
                   THEN /\ job'[w].pc = "key"
                        /\ \E a \in cand :
                              /\ a.pk = job'[w].article
                              /\ \A b \in cand : a.published_at <= b.published_at
                   ELSE /\ job'[w].pc = "idle"
                        /\ job'[w].call = "none"
                        /\ job'[w].requests = 0
                        /\ job'[w].posted = << >>
                        /\ articles' = articles
                        /\ config' = config
                        /\ ai_logs' = ai_logs
                        /\ served' = served]_vars
    /\ [](\A w \in Workers :
            job[w].outcome = "no_article" => LogsOfCall(job[w].id) = {})

C28_Witness ==
    /\ Len(served) = 1
    /\ served[1].article = <<"t2", 1>>
    /\ job["w1"].pc = "idle"
    /\ job["w1"].outcome = "no_article"
    /\ job["w1"].team_code = "ba"
    /\ Cardinality(Unprocessed("")) = 3

----------------------------------------------------------------------------
(* Properties of the save loop and of the AI request *)

(* C29: a run in which the save of a candidate article raised ends in *)
(* error: its FetchLog row has status error and a non-empty           *)
(* error_message.                                                     *)
C29_PersistErrorLogged ==
    \A t \in Tasks :
        (Done(t) /\ runs[t].save_errors > 0)
        => /\ runs[t].status = "error"
           /\ \A l \in LogsOf(t) : /\ l.status = "error"
                                   /\ l.error_message # ""

(* C30: an enrichment cycle sends at most one AI request; after a    *)
(* request that failed the cycle has sent exactly one, has the       *)
(* original content as its AI content and has left one AILog row of  *)
(* status error.                                                     *)
C30_NoRetry ==
    \A w \in Workers :
        /\ job[w].requests <= 1
        /\ (job[w].call = "returned" /\ job[w].outcome \in {"no_content", "non200", "transport"})
           => /\ job[w].requests = 1
              /\ Cardinality(LogsOfCall(job[w].id)) = 1
              /\ \A l \in LogsOfCall(job[w].id) : l.status = "error"
              /\ job[w].pc \in {"notify", "persist"} => job[w].ai_content = job[w].content

C30_Witness ==
    /\ job["w1"].pc = "persist"
    /\ job["w1"].outcome = "transport"
    /\ job["w1"].requests = 1
    /\ job["w1"].content = "body"
    /\ job["w1"].ai_content = "body"
    /\ job["w1"].posted = << >>

----------------------------------------------------------------------------
(* A Source row saved through its form, and one source-run on it with the *)
(* fetch() call taken step by step                                        *)

(* Source.params is a JSONField: null, a number, or a map; of a map the *)
(* model keeps the keys and what kind of value 'headers' holds          *)
ParamsValues ==
    [json : {"null"}, keys : {{}}, headers : {"none"}]
      \cup [json : {"number"}, keys : {{}}, headers : {"none"}]
      \cup { p \in [json : {"map"}, keys : SUBSET {"prompt", "headers", "query_params"}, headers : {"none", "map", "list"}] :
               (p.headers = "none") <=> ("headers" \notin p.keys) }

(* Python truth value of the field: None and {} are false *)
ParamsTruthy(params) ==
    \/ params.json = "number"
    \/ params.json = "map" /\ params.keys # {}

(* `key in params`: TypeError on a number *)
In(key, params) ==
    IF params.json = "number" THEN "TypeError"
    ELSE IF key \in params.keys THEN "yes" ELSE "no"

(* models.py lines 45-56: Source.clean *)
Clean(type, params) ==
    IF ~ParamsTruthy(params) THEN "ok"
    ELSE CASE type = "api" /\ In("headers", params) = "TypeError" -> "ValidationError"
           [] type = "api" /\ In("headers", params) = "yes" ->
                IF params.headers # "map" THEN "ValidationError" ELSE "ok"
           [] type = "static" /\ In("prompt", params) # "yes" -> "ValidationError"
           [] OTHER -> "ok"

(* TYPE_CHOICES, models.py lines 25-29 *)
TypeChoices == {"api", "rss", "static"}

(* the source the form edits *)
FormSource == "s2"

(* the admin form: clean() and, when it passes, save() *)
SourceFormSave(type, params) ==
    /\ fetcher.pc \in {"idle", "rejected"}
    /\ fetcher' = IF Clean(type, params) = "ok"
                  THEN [NoFetcher EXCEPT !.type = type, !.params = params, !.pc = "saved"]
                  ELSE [NoFetcher EXCEPT !.type = type, !.params = params, !.pc = "rejected"]
    /\ UNCHANGED <<now, last_fetched, runs, articles, fetch_logs, due_obs, faults,
                   config, job, cycles, served, ai_logs, fan, notify, view, syscfg,
                   trig, team_active, extract, cmd, edited>>

(* fetchers.py lines 462-466: the run starts and the fetcher is created *)
FetcherCreate(t) ==
    /\ fetcher.pc = "saved"
    /\ runs[t].pc = "idle"
    /\ IF CreateFetcher(fetcher.type) = "ValueError"
       THEN /\ Fail(t, "select", "Unknown source type")
            /\ fetcher' = [fetcher EXCEPT !.pc = "ended", !.ended = "raised"]
       ELSE /\ runs' = [runs EXCEPT ![t] = StartedRun(FormSource)]
            /\ fetcher' = [fetcher EXCEPT !.pc = "precondition"]
            /\ UNCHANGED fetch_logs
    /\ UNCHANGED <<now, last_fetched, articles, due_obs, faults,
                   config, job, cycles, served, ai_logs, fan, notify, view, syscfg,
                   trig, team_active, extract, cmd, edited>>

AgentQLMissingPrompt_AfterKey(params) == FALSE

(* fetchers.py lines 169-172: params = self.source.params or {}, and *)
(* the test of 'prompt'                                               *)
AgentQLMissingPrompt(params) ==
    IF ParamsTruthy(params) THEN In("prompt", params) # "yes" ELSE TRUE

(* what fetch() raises before its try statement: lines 171-172 of the  *)
(* AgentQL fetcher, params.get of line 127 on a number in the API one  *)
PreconditionRaises(type, params) ==
    CASE CreateFetcher(type) = "AgentQLFetcher" -> AgentQLMissingPrompt(params)
      [] CreateFetcher(type) = "APIFetcher" -> params.json = "number"
      [] OTHER -> FALSE

FetcherPrecondition(t) ==
    /\ fetcher.pc = "precondition"
    /\ IF PreconditionRaises(fetcher.type, fetcher.params)
       THEN /\ Fail(t, "fetch", "AgentQL fetcher requires 'prompt' in params")
            /\ fetcher' = [fetcher EXCEPT !.pc = "ended", !.ended = "raised"]
       ELSE /\ fetcher' = [fetcher EXCEPT
                             !.pc = IF CreateFetcher(fetcher.type) = "AgentQLFetcher"
                                    THEN "key" ELSE "request"]
            /\ UNCHANGED <<runs, fetch_logs>>
    /\ UNCHANGED <<now, last_fetched, articles, due_obs, faults,
                   config, job, cycles, served, ai_logs, fan, notify, view, syscfg,
                   trig, team_active, extract, cmd, edited>>

(* fetchers.py lines 174-183, inside the try: the API key is read, the   *)
(* payload takes params['prompt']; utils.py holds no definition of       *)
(* get_agentql_api_key_async, so the read either returns or raises       *)
FetcherKey(t) ==
    /\ fetcher.pc = "key"
    /\ \E read \in {"returned", "raised"} :
          IF read = "raised" \/ In("prompt", fetcher.params) # "yes"
          THEN /\ Fail(t, "fetch", "'prompt'")
               /\ fetcher' = [fetcher EXCEPT !.pc = "ended", !.ended = "raised",
                                             !.key_read = TRUE]
          ELSE /\ fetcher' = [fetcher EXCEPT !.pc = "request", !.key_read = TRUE]
               /\ UNCHANGED <<runs, fetch_logs>>
    /\ UNCHANGED <<now, last_fetched, articles, due_obs, faults,
                   config, job, cycles, served, ai_logs, fan, notify, view, syscfg,
                   trig, team_active, extract, cmd, edited>>

(* how the one request of a fetch() can end *)
RequestOutcomes == {"ok200", "non200", "transport", "parse"}

FetchRaised_Swallowed(outcome) == FALSE

(* the try/except of each fetch(): lines 99-117, 129-143, 174-197; the *)
(* except clause logs and re-raises                                    *)
FetchRaised(outcome) == outcome \in {"transport", "parse"}

(* the list fetch() returns: the entries of a 200 answer, else [] *)
FetchedArticles(outcome) == IF outcome = "ok200" THEN FeedA ELSE << >>

FetcherRequest(t) ==
    /\ fetcher.pc = "request"
    /\ \E outcome \in RequestOutcomes :
          IF FetchRaised(outcome)
          THEN /\ Fail(t, "fetch", "Cannot connect to host")
               /\ fetcher' = [fetcher EXCEPT !.pc = "ended", !.ended = outcome,
                                             !.requests = @ + 1]
          ELSE /\ runs' = [runs EXCEPT ![t].pc = "fetched",
                                       ![t].articles_data = FetchedArticles(outcome)]
               /\ fetcher' = [fetcher EXCEPT !.pc = "ended", !.ended = outcome,
                                             !.requests = @ + 1]
               /\ UNCHANGED fetch_logs
    /\ UNCHANGED <<now, last_fetched, articles, due_obs, faults,
                   config, job, cycles, served, ai_logs, fan, notify, view, syscfg,
                   trig, team_active, extract, cmd, edited>>

NextFetcher ==
    \/ \E type \in TypeChoices, params \in ParamsValues : SourceFormSave(type, params)
    \/ FetcherCreate("t1")
    \/ FetcherPrecondition("t1")
    \/ FetcherKey("t1")
    \/ FetcherRequest("t1")
    \/ Dedup("t1")
    \/ Persist("t1")
    \/ Finish("t1")

SpecFetcher == Init /\ [][NextFetcher]_vars

HasPrompt(params) == params.json = "map" /\ "prompt" \in params.keys

(* C31: a source-run on a 'static' source whose params hold no 'prompt' *)
(* ends with fetch() having raised before the API key was read and      *)
(* before any request was sent, with an 'error' FetchLog and without    *)
(* any Article created                                                  *)
C31_MissingPromptPrecondition ==
    \A t \in Tasks :
        ( /\ Done(t)
          /\ runs[t].source = FormSource
          /\ fetcher.type = "static"
          /\ ~HasPrompt(fetcher.params) )
        => /\ fetcher.ended = "raised"
           /\ ~fetcher.key_read
           /\ fetcher.requests = 0
           /\ runs[t].raised = "fetch"
           /\ RowsBy(t) = {}
           /\ \A l \in LogsOf(t) : l.status = "error" /\ l.articles_count = 0

C31_Witness ==
    /\ Done("t1")
    /\ fetcher.type = "static"
    /\ fetcher.params.json = "null"
    /\ fetcher.ended = "raised"
    /\ LogsOf("t1") # {}

(* C32: Source.clean rejects every 'static' source without a 'prompt'    *)
(* parameter, also with params null or {}, and every 'api' source whose  *)
(* 'headers' parameter is present and not a map                          *)
C32_CleanRejectsMissingPrompt ==
    ( /\ fetcher.pc # "idle"
      /\ \/ fetcher.type = "static" /\ ~HasPrompt(fetcher.params)
         \/ fetcher.type = "api" /\ fetcher.params.headers \notin {"none", "map"} )
    => fetcher.pc = "rejected"

(* C34: a transport or parse failure raised inside a fetcher leaves   *)
(* fetch() as an exception, and the source-run ends with a FetchLog   *)
(* of status 'error' and no 'success' FetchLog                        *)
C34_FetchFailurePropagates ==
    \A t \in Tasks :
        ( /\ Done(t)
          /\ runs[t].source = FormSource
          /\ fetcher.ended \in {"transport", "parse"} )
        => /\ runs[t].raised = "fetch"
           /\ runs[t].status = "error"
           /\ LogsOf(t) # {}
           /\ \A l \in LogsOf(t) : l.status = "error"

C34_Witness ==
    /\ Done("t1")
    /\ fetcher.type = "rss"
    /\ fetcher.ended = "parse"
    /\ \E l \in LogsOf("t1") : l.status = "error"

----------------------------------------------------------------------------
(* Teams switched on and off while the enrichment job runs *)

(* TeamAdmin: is_active is an editable field of the Team form *)
TeamSetActive(team, active) ==
    /\ \A w \in Workers : job[w].pc = "idle"
    /\ team_active[team] # active
    /\ team_active' = [team_active EXCEPT ![team] = active]
    /\ UNCHANGED <<now, last_fetched, runs, articles, fetch_logs, due_obs, faults,
                   config, job, cycles, served, ai_logs, fan, notify, view, syscfg,
                   trig, fetcher, extract, cmd, edited>>

NextTeams ==
    \/ \E team \in Teams, active \in BOOLEAN : TeamSetActive(team, active)
    \/ \E tc \in TeamCodes : EnrichSelect("w1", tc)
    \/ \E tc \in TeamCodes : EnrichNoArticle("w1", tc)
    \/ EnrichKey("w1")
    \/ EnrichAI("w1", {"ok"}, {"ok"})
    \/ EnrichNotify("w1", {"ok"})
    \/ EnrichPersist("w1")

SpecTeams == InitEnrich /\ [][NextTeams]_vars

(* C33: a cycle of the enrichment job takes an article only when the *)
(* team owning it is active at that cycle                            *)
C33_ActiveTeamsOnly ==
    [][\A w \in Workers :
          (job[w].pc = "idle" /\ job'[w].pc = "key") => team_active[job'[w].team]]_vars

----------------------------------------------------------------------------
(* fetch_article_detail: the text taken from the page and its length *)

MaxRawContent == 4000
MinRawContent == 300

(* A text is a sequence of runs: n characters that are all whitespace *)
(* (ws) or all not.                                                   *)

(* line 414: f"{title}\n\n{meta}\n\n" + "\n".join(paragraphs); title,   *)
(* meta and each paragraph are stripped and given by their lengths     *)
RawContent(title, meta, paragraphs) ==
    <<[ws |-> FALSE, n |-> title], [ws |-> TRUE, n |-> 2],
      [ws |-> FALSE, n |-> meta], [ws |-> TRUE, n |-> 2]>>
      \o [i \in 1..(IF paragraphs = << >> THEN 0 ELSE 2 * Len(paragraphs) - 1) |->
            IF i % 2 = 1 THEN [ws |-> FALSE, n |-> paragraphs[(i + 1) \div 2]]
                         ELSE [ws |-> TRUE, n |-> 1]]

(* len(text) *)
RECURSIVE TextLen(_)
TextLen(text) ==
    IF text = << >> THEN 0 ELSE Head(text).n + TextLen(Tail(text))

(* line 415: text[:k] *)
RECURSIVE Slice(_, _)
Slice(text, k) ==
    IF text = << >> \/ k = 0 THEN << >>
    ELSE IF Head(text).n <= k
         THEN <<Head(text)>> \o Slice(Tail(text), k - Head(text).n)
         ELSE <<[Head(text) EXCEPT !.n = k]>>

(* line 420: text.strip() *)
StripText(text) ==
    LET Blank(r) == r.ws \/ r.n = 0
        inner == { i \in 1..Len(text) : ~Blank(text[i]) }
    IN  IF inner = {} THEN << >>
        ELSE SubSeq(text, CHOOSE i \in inner : \A j \in inner : i <= j,
                          CHOOSE i \in inner : \A j \in inner : i >= j)

TooShort_Unstripped(raw_content) == TextLen(raw_content) < MinRawContent

(* line 420: len(raw_content.strip()) < 300 *)
TooShort(raw_content) == TextLen(StripText(raw_content)) < MinRawContent

(* lines 360-422: the page is rendered, the text is built and cut, and a *)
(* text that is too short ends the call with the empty result           *)
ExtractCall(title, meta, paragraphs) ==
    /\ extract.pc = "idle"
    /\ LET raw_content == Slice(RawContent(title, meta, paragraphs), MaxRawContent)
       IN  extract' = [NoExtract EXCEPT
                         !.pc = IF TooShort(raw_content) THEN "done" ELSE "ai",
                         !.title = title, !.meta = meta, !.paragraphs = paragraphs,
                         !.raw_content = raw_content,
                         !.content = IF TooShort(raw_content) THEN "" ELSE "none"]
    /\ UNCHANGED <<now, last_fetched, runs, articles, fetch_logs, due_obs, faults,
                   config, job, cycles, served, ai_logs, fan, notify, view, syscfg,
                   trig, team_active, fetcher, cmd, edited>>

(* lines 424-450: call_openrouter_ai(raw_content, url); what it returns is *)
(* the content, and an exception it raises gives the empty result          *)
ExtractAI(call) ==
    /\ extract.pc = "ai"
    /\ extract' = [extract EXCEPT !.pc = "done", !.ai_calls = @ + 1, !.call = call,
                                  !.content = IF call = "returned" THEN "ai_content"
                                              ELSE ""]
    /\ UNCHANGED <<now, last_fetched, runs, articles, fetch_logs, due_obs, faults,
                   config, job, cycles, served, ai_logs, fan, notify, view, syscfg,
                   trig, team_active, fetcher, cmd, edited>>

NextExtract ==
    \/ \E title \in {0, 20}, meta \in {0, 30},
          paragraphs \in {<< >>, <<100>>, <<246>>, <<250>>, <<296>>, <<300>>,
                          <<298, 0, 0>>, <<200, 0, 99>>, <<3000, 995>>, <<3996>>,
                          <<3000, 996>>, <<3000, 1500>>, <<5000>>, <<0, 0, 5000>>} :
          ExtractCall(title, meta, paragraphs)
    \/ \E call \in {"returned", "raised"} : ExtractAI(call)

SpecExtract == Init /\ [][NextExtract]_vars

(* the text before the cut *)
Concatenated == RawContent(extract.title, extract.meta, extract.paragraphs)

(* C35 as stated: a text longer than 4000 characters is cut to exactly  *)
(* 4000; a text of fewer than 300 characters gives the empty result and *)
(* no AI call; a text of 300 characters or more is not a failure        *)
C35_LengthPolicy ==
    extract.pc = "done" =>
        /\ TextLen(Concatenated) > MaxRawContent
             => TextLen(extract.raw_content) = MaxRawContent
        /\ TextLen(Concatenated) < MinRawContent
             => extract.content = "" /\ extract.ai_calls = 0
        /\ TextLen(Concatenated) >= MinRawContent /\ extract.call # "raised"
             => extract.content # ""

(* C35 amended: the length that decides is that of the cut text without *)
(* its leading and trailing whitespace                                  *)
C35_StrippedLengthPolicy ==
    extract.pc = "done" =>
        /\ extract.raw_content = Slice(Concatenated, MaxRawContent)
        /\ TextLen(Concatenated) > MaxRawContent
             => TextLen(extract.raw_content) = MaxRawContent
        /\ TextLen(StripText(extract.raw_content)) < MinRawContent
             => extract.content = "" /\ extract.ai_calls = 0
        /\ TextLen(StripText(extract.raw_content)) >= MinRawContent
             => /\ extract.ai_calls = 1
                /\ extract.call = "returned" => extract.content = "ai_content"

C35_Witness ==
    /\ extract.pc = "done"
    /\ TextLen(extract.raw_content) >= MinRawContent
    /\ TextLen(StripText(extract.raw_content)) < MinRawContent
    /\ extract.content = ""
    /\ extract.ai_calls = 0

----------------------------------------------------------------------------
(* tasks.py scheduled_collection next to the other two entry points *)

(* tasks.py lines 89-97: is_active, the team when one is given, and the *)
(* SQL condition on last_fetched and fetch_interval                     *)
ScheduledDue(tc, t) ==
    { s \in Sources :
        /\ SourceRow(s).is_active
        /\ TeamMatches(s, tc)
        /\ \/ last_fetched[s] = NoTime
           \/ t - last_fetched[s] >= SourceRow(s).fetch_interval }

(* lines 106-111: collect_data_from_source.delay for each selected source *)
ObservedScheduled(tc) ==
    LET order == SelectSeq(SourceOrder, LAMBDA s : s \in ScheduledDue(tc, now))
        free == FreeTasks(Tasks)
    IN  /\ Len(order) <= Len(free)
        /\ runs' = [t \in Tasks |->
                      IF \E k \in 1..Len(order) : free[k] = t
                      THEN LET k == CHOOSE k \in 1..Len(order) : free[k] = t
                           IN  StartedRun(order[k])
                      ELSE runs[t]]
        /\ due_obs' = [team_code |-> tc, at |-> now, lf |-> last_fetched,
                       started |-> Range(order),
                       tasks |-> { free[k] : k \in 1..Len(order) },
                       entry |-> "scheduled"]
        /\ UNCHANGED <<now, last_fetched, articles, fetch_logs, faults,
                       config, job, cycles, served, ai_logs, fan, aux>>

(* one selection by one of the three entry points, at any time *)
NextSched ==
    \/ Tick
    \/ \E tc \in TeamCodes : due_obs.entry = "none" /\ ObservedCollectAll(tc)
    \/ due_obs.entry = "none" /\ ObservedCommand(FALSE)
    \/ \E tc \in TeamCodes : due_obs.entry = "none" /\ ObservedScheduled(tc)

SpecSched == InitDue /\ [][NextSched]_vars

(* C36: whichever entry point made the latest selection, it started the *)
(* sources that each of the three would select in that state, and among *)
(* them every active source with force_collect set                      *)
C36_SameDueSet ==
    (due_obs.entry # "none" /\ due_obs.lf = last_fetched) =>
        /\ due_obs.started = DueSources(due_obs.team_code, due_obs.at)
        /\ due_obs.started = ScheduledDue(due_obs.team_code, due_obs.at)
        /\ due_obs.team_code = "" => due_obs.started = CommandDue(due_obs.at)
        /\ \A s \in Sources :
              (SourceRow(s).is_active /\ SourceRow(s).force_collect
                 /\ TeamMatches(s, due_obs.team_code)) => s \in due_obs.started

----------------------------------------------------------------------------
(* the posts of a list that reached the webhook *)
Delivered(posted) == { k \in DOMAIN posted : posted[k] = "ok" }

(* C37: the webhook of a team receives at most one message for an     *)
(* article: at most one post of a cycle is delivered, whether the     *)
(* cycle is still running or has marked its article enriched          *)
C37_OneNotificationPerArticle ==
    /\ \A w \in Workers : Cardinality(Delivered(job[w].posted)) <= 1
    /\ \A i \in DOMAIN served : Cardinality(Delivered(served[i].posted)) <= 1

----------------------------------------------------------------------------
(* The collect_data command run again and again over MaxDue active       *)
(* sources, numbered in the order of Source.Meta.ordering.  cmd.failing: *)
(* the sources whose endpoint is down; cmd.fresh: the sources whose      *)
(* last_fetched is set and whose interval has not elapsed;               *)
(* cmd.attempted: the sources a run was started for                      *)

(* which endpoints are down is fixed before the first run *)
CommandSetup(failing) ==
    /\ cmd.pc = "idle"
    /\ cmd' = [cmd EXCEPT !.pc = "ready", !.failing = failing]
    /\ UNCHANGED <<now, last_fetched, runs, articles, fetch_logs, due_obs, faults,
                   config, job, cycles, served, ai_logs, fan, notify, view, syscfg,
                   trig, team_active, fetcher, extract, edited>>

(* collect_data.py lines 41-55: the due list, its first MAX_SOURCES      *)
(* entries, one collect_from_source each; a run that fails leaves        *)
(* last_fetched as it was (fetchers.py lines 496-510)                    *)
CommandRun ==
    /\ cmd.pc = "ready"
    /\ LET due_sources == { s \in 1..MaxDue : s \notin cmd.fresh }
           limited_sources ==
               { s \in due_sources :
                   Cardinality({ x \in due_sources : x < s }) < MAX_SOURCES }
       IN  cmd' = [cmd EXCEPT !.fresh = @ \cup (limited_sources \ cmd.failing),
                              !.attempted = @ \cup limited_sources,
                              !.round = 1 - @]
    /\ UNCHANGED <<now, last_fetched, runs, articles, fetch_logs, due_obs, faults,
                   config, job, cycles, served, ai_logs, fan, notify, view, syscfg,
                   trig, team_active, fetcher, extract, edited>>

(* time passes: the interval of every collected source has elapsed *)
IntervalElapses ==
    /\ cmd.pc = "ready"
    /\ cmd.fresh # {}
    /\ cmd' = [cmd EXCEPT !.fresh = {}]
    /\ UNCHANGED <<now, last_fetched, runs, articles, fetch_logs, due_obs, faults,
                   config, job, cycles, served, ai_logs, fan, notify, view, syscfg,
                   trig, team_active, fetcher, extract, edited>>

NextStarve ==
    \/ \E failing \in { 1..k : k \in 0..MaxDue } \cup { {s} : s \in 1..MaxDue } :
          CommandSetup(failing)
    \/ CommandRun
    \/ IntervalElapses

(* the command is run again and again *)
SpecStarve == Init /\ [][NextStarve]_vars /\ WF_vars(CommandRun)

(* C38: with the command run repeatedly, a run is eventually started *)
(* for every source of the list                                      *)
C38_NoStarvation ==
    \A s \in 1..MaxDue : (cmd.pc = "ready") ~> (s \in cmd.attempted)

----------------------------------------------------------------------------
(* Enrichment cycles triggered again and again by the beat schedule *)
(* (isdnews/celery.py lines 25-28: no team_code)                    *)

ai_type_max_length == 10

(* len(Team.code): models.py line 8 allows up to 20 characters *)
TeamCodeLen(code) ==
    CASE code = "dev" -> 3
      [] code = "ba" -> 2
      [] code = "infrastructure" -> 14
      [] OTHER -> 0

(* the Article table of InitEnrich and one article of source s4, and the *)
(* stored openrouter_api_key                                             *)
InitProgress ==
    /\ now = 0
    /\ last_fetched = [s \in Sources |-> IF s \in {"s1", "s2"} THEN 0 ELSE NoTime]
    /\ articles = SeedArticles \cup {NewRow("t3", 1, 6, "s4")}
    /\ config \in [enabled : {TRUE}, last_type_sent : {"", "dev", "ba", "infrastructure"}]
    /\ InitCommon
    /\ notify = NoNotify
    /\ \E raw \in KeyValues : syscfg = [NoSysCfg EXCEPT !.store = raw]

(* tasks.py lines 141-223, one whole cycle: the oldest unprocessed       *)
(* article, the key (fetchers.py 238-241), the request and its AILog     *)
(* row, the notifications, the transaction; the database of settings.py  *)
(* rejects an ai_type longer than the column (models.py line 78).  The   *)
(* job record keeps the parity of the cycle count and how the cycle      *)
(* ended                                                                  *)
ProcessOpenRouterJob(tc, outcomes) ==
    /\ config.enabled
    /\ \E a \in OldestUnprocessed(tc), outcome \in outcomes :
          LET team == SourceRow(a.source).team
              result == AIResult(outcome, a.content)
              j == [IdleJob EXCEPT !.article = a.pk, !.team = team,
                                   !.ai_content = result]
              point == IF TeamCodeLen(team) > ai_type_max_length
                       THEN "article" ELSE "none"
              r == AtomicUpdate(point, articles, config, j)
              posted == IF outcome = "ok" /\ Truthy(GetTeamsWebhook(team))
                        THEN <<"ok", "ok">>
                        ELSE IF Truthy(GetTeamsWebhook(team)) THEN <<"ok">> ELSE << >>
              ended == IF GetOpenRouterApiKey(syscfg.store) = "" THEN "no_key"
                       ELSE IF point = "none" THEN outcome ELSE "persist_failed"
          IN  /\ job' = [job EXCEPT !["w1"] =
                           [IdleJob EXCEPT !.id = 1 - job["w1"].id, !.team_code = tc,
                                           !.outcome = ended]]
              /\ IF GetOpenRouterApiKey(syscfg.store) = ""
                 THEN UNCHANGED <<articles, config, ai_logs, served>>
                 ELSE /\ ai_logs' = ai_logs \cup
                            {[call |-> 0, url |-> a.url, prompt |-> <<a.url, a.content>>,
                              result |-> result,
                              status |-> IF outcome = "ok" THEN "success" ELSE "error",
                              error_message |-> AILogError(outcome)]}
                      /\ articles' = r.articles
                      /\ config' = r.config
                      /\ served' = IF point = "none"
                                   THEN Append(served, [cursor |-> config.last_type_sent,
                                                        team |-> team, article |-> a.pk,
                                                        posted |-> posted])
                                   ELSE served
    /\ UNCHANGED <<now, last_fetched, runs, fetch_logs, due_obs, faults, cycles,
                   fan, aux>>

NextProgress == ProcessOpenRouterJob("", AIOutcomes)

SpecProgress ==
    InitProgress /\ [][NextProgress]_vars /\ WF_vars(NextProgress)

(* C39: with the job enabled and cycles triggered again and again, *)
(* every article is eventually marked is_ai_processed              *)
C39_EnrichmentProgress ==
    <>(\A a \in articles : a.is_ai_processed)

----------------------------------------------------------------------------
(* Article rows saved through the admin form while the enrichment job runs *)

MaxEdits == 1

(* admin.py lines 52-55: is_ai_processed, ai_type and ai_content are *)
(* fields of the ArticleAdmin form, not read-only ones               *)
ArticleAdminSave(pk, is_ai_processed, ai_type, ai_content) ==
    /\ Cardinality(edited) < MaxEdits
    /\ \E a \in articles : a.pk = pk
    /\ articles' = { IF a.pk = pk
                     THEN [a EXCEPT !.is_ai_processed = is_ai_processed,
                                    !.ai_type = ai_type, !.ai_content = ai_content]
                     ELSE a : a \in articles }
    /\ edited' = edited \cup {pk}
    /\ UNCHANGED <<now, last_fetched, runs, fetch_logs, due_obs, faults,
                   config, job, cycles, served, ai_logs, fan, notify, view, syscfg,
                   trig, team_active, fetcher, extract, cmd>>

NextAdmin ==
    \/ \E a \in SeedArticles,
          f \in {[is_ai_processed |-> FALSE, ai_type |-> "", ai_content |-> "note"],
                 [is_ai_processed |-> TRUE, ai_type |-> "", ai_content |-> ""],
                 [is_ai_processed |-> FALSE, ai_type |-> "dev", ai_content |-> ""]} :
          ArticleAdminSave(a.pk, f.is_ai_processed, f.ai_type, f.ai_content)
    \/ \E tc \in TeamCodes : EnrichSelect("w1", tc)
    \/ \E tc \in TeamCodes : EnrichNoArticle("w1", tc)
    \/ EnrichKey("w1")
    \/ EnrichAI("w1", {"ok"}, {"ok"})
    \/ EnrichNotify("w1", {"ok"})
    \/ EnrichPersist("w1")

SpecAdmin == InitEnrich /\ [][NextAdmin]_vars

(* a cycle invoked with a team code has picked an article of that team *)
PicksRequestedTeam ==
    \A w \in Workers :
        (job[w].pc \in {"key", "ai", "notify", "persist"} /\ job[w].team_code # "")
        => job[w].team = job[w].team_code

(* the enrichment fields of one row agree with its flag *)
FieldsConsistent(a) ==
    /\ ~a.is_ai_processed => (a.ai_content = "" /\ a.ai_type = "")
    /\ a.is_ai_processed => a.ai_type = SourceRow(a.source).team

=============================================================================
